---- MODULE Spec2Model ----
(***************************************************************************)
(* FTPSync (src/FTPSync.cpp): one-way synchronisation of a local directory *)
(* tree to a directory of an FTP server, in three passes.                  *)
(*                                                                         *)
(* Strings (std::string) are sequences of one-character strings.  A path   *)
(* is such a sequence.  File systems are functions from paths to entries:  *)
(* the local tree maps a path to 0 (a directory) or to the modification    *)
(* time (1..MaxTime) of a regular file, the remote tree maps a path to its *)
(* modification time.                                                      *)
(***************************************************************************)
EXTENDS Integers, Sequences, FiniteSets, TLC

\* --------------------------------------------------------------------------
\* Bounds of the model
\* --------------------------------------------------------------------------

\* modification times are 1..MaxTime
MaxTime == 2

\* strings of the path-mapping specification have at most MaxLen characters
MaxLen == 3

\* --------------------------------------------------------------------------
\* Constants of the program
\* --------------------------------------------------------------------------

\* std::string::npos, the result of rfind when nothing is found
npos == -1

\* FTP reply codes the program tests for
LoggedIn == 230
FileActionOk == 250
FileStatus == 213
TransferComplete == 226

\* the replies a command can get: the one the program tests for, or a refusal
Replies(okCode) == {okCode, 550}

\* --------------------------------------------------------------------------
\* std::string operations
\* --------------------------------------------------------------------------

\* result of an operation that may throw: a value, or an exception
Value(v) == [ok |-> TRUE, val |-> v]
Thrown == [ok |-> FALSE, val |-> <<>>]

\* s.rfind(c): 0-based index of the last occurrence of c in s, or npos
rfind(s, c) ==
    IF \E i \in 1..Len(s) : s[i] = c
    THEN (CHOOSE i \in 1..Len(s) :
              s[i] = c /\ \A j \in (i+1)..Len(s) : s[j] # c) - 1
    ELSE npos

\* s.substr(pos): the characters from 0-based pos on; throws std::out_of_range
\* when pos > s.size() (npos is greater than every size)
substr(s, pos) ==
    IF pos = npos \/ pos > Len(s)
    THEN Thrown
    ELSE Value(SubSeq(s, pos + 1, Len(s)))

\* variant of procCmdLine that leaves the local directory as given
NormalizeLocalNone(dir) == dir

\* procCmdLine: the local directory gets a trailing '/' when it has none
NormalizeLocal(dir) ==
    IF dir[Len(dir)] # "/" THEN Append(dir, "/") ELSE dir

\* --------------------------------------------------------------------------
\* Path mapping
\* --------------------------------------------------------------------------

\* variant of remoteFileToLocal that forgets to skip the separator
remoteFileToLocalNoSep(argData, remoteFilePath) ==
    LET tail == substr(remoteFilePath, Len(argData.remoteDirectory))
    IN  IF tail.ok THEN Value(argData.localDirectory \o tail.val) ELSE Thrown

localFileToRemote(argData, localFilePath) ==
    LET tail == substr(localFilePath, rfind(argData.localDirectory, "/"))
    IN  IF tail.ok THEN Value(argData.remoteDirectory \o tail.val) ELSE Thrown

remoteFileToLocal(argData, remoteFilePath) ==
    LET tail == substr(remoteFilePath, Len(argData.remoteDirectory) + 1)
    IN  IF tail.ok THEN Value(argData.localDirectory \o tail.val) ELSE Thrown

\* --------------------------------------------------------------------------
\* The trees
\* --------------------------------------------------------------------------

\* the local directory being synchronised and the server directory, as the
\* file systems name them
LocalBase == <<"/", "l", "/">>
ServerBase == <<"/", "r">>

\* the relative paths that can exist below them, in directory order
SuffixOrder == << <<"a">>, <<"d", "/", "b">> >>

Range(q) == {q[i] : i \in 1..Len(q)}

Suffixes == Range(SuffixOrder)

LocalPaths == {LocalBase \o s : s \in Suffixes}
RemotePaths == {ServerBase \o <<"/">> \o s : s \in Suffixes}

\* what the command line can give for --local and --remote
LocalArgs == {LocalBase, SubSeq(LocalBase, 1, Len(LocalBase) - 1)}
RemoteArgs == {ServerBase, ServerBase \o <<"/">>}

\* a local entry is a directory (0) or a regular file with its modification time
Directory == 0
LocalTrees == UNION {[D -> {Directory} \cup (1..MaxTime)] : D \in SUBSET LocalPaths}
RemoteTrees == UNION {[D -> 1..MaxTime] : D \in SUBSET RemotePaths}

\* CFTP::DateTime as default-constructed
DefaultDateTime == 0

VARIABLES
    argv,                     \* the command line
    argData,                  \* ParamArgData: [localDirectory, remoteDirectory]
    pc,                       \* position in main
    run,                      \* 1 for the first run of the program, 2 for the second
    localFS,                  \* the local tree
    remoteFS,                 \* the tree on the server
    rootExists,               \* the remote directory exists on the server
    connected,                \* ftpServer holds an open session
    localFiles,               \* std::vector<std::string> localFiles
    remoteFiles,              \* std::vector<std::string> remoteFiles
    newFiles,                 \* std::vector<std::string> newFiles
    newFilesTransfered,       \* std::vector<std::string> newFilesTransfered
    idx,                      \* position of the running range-for loop
    remoteFileModifiedTimes,  \* std::unordered_map<std::string, CFTP::DateTime>
    oracleBuilt,              \* remoteFileModifiedTimes as the fill loop left it
    log,                      \* the backend operations of this run, in order
    prevClean,                \* every put and removal of the first run succeeded
    exitStatus,               \* <<>> while running, then the status given to exit
    mapIn,                    \* path-mapping specification: the path mapped
    mapOut,                   \* path-mapping specification: the result
    remoteListed,             \* the server tree as listRemoteRecursive found it
    fileList,                 \* backup: locaFileList; restore: remoteFileList;
                              \* ArchiveMailBox: mailMessages
    filesDone,                \* backup: filesBackedUp; restore: restoredFiles
    prog,                     \* the program that runs
    sftpOpen,                 \* SFTPRestore: sftpServer holds an open session
    report,                   \* backup and restore: the lines of the final report
    waitArgs,                 \* WaitForMailBoxEvent: [bPolls, bWaitForNewMail]
    exists,                   \* WaitForMailBoxEvent: int exists
    newExists,                \* WaitForMailBoxEvent: int newExists
    responseMap,              \* WaitForMailBoxEvent: parsedResponse->responseMap
    cycles,                   \* WaitForMailBoxEvent: passes through the do-while body
    newMail,                  \* WaitForMailBoxEvent: "YOU HAVE NEW MAIL !!!" was printed
    bOnlyUpdates,             \* ArchiveMailBox: argData.bOnlyUpdates
    folder,                   \* ArchiveMailBox: the destination folder of each mailbox
    mailbox,                  \* ArchiveMailBox: the UIDs of the messages of each
                              \* mailbox of the server
    searchUID,                \* ArchiveMailBox: std::uint64_t searchUID
    indexes,                  \* ArchiveMailBox: parsedResponse->indexes
    fetched,                  \* ArchiveMailBox: the messages given to
                              \* fetchEmailAndArchive, in order
    mailBoxList,              \* ArchiveMailBox: std::vector<std::string> mailBoxList
    box,                      \* ArchiveMailBox: position of the loop over mailBoxList
    mailMessages              \* ArchiveMailBox: mailMessages of getLowerSearchLimit,
                              \* as the call for each mailbox left it

vars == <<argv, argData, pc, run, localFS, remoteFS, rootExists, connected,
          localFiles, remoteFiles, newFiles, newFilesTransfered, idx,
          remoteFileModifiedTimes, oracleBuilt, log, prevClean, exitStatus,
          mapIn, mapOut, remoteListed, fileList, filesDone, prog, sftpOpen,
          report, waitArgs, exists, newExists, responseMap, cycles, newMail,
          bOnlyUpdates, folder, mailbox, searchUID, indexes, fetched,
          mailBoxList, box, mailMessages>>

\* the variables of one run of the process
procVars == <<localFiles, remoteFiles, newFiles, newFilesTransfered, idx,
              remoteFileModifiedTimes, oracleBuilt>>

mapVars == <<mapIn, mapOut>>

\* the variables of the backup and restore programs
copyVars == <<fileList, filesDone, prog, sftpOpen, report>>

\* the variables of the mail programs
waitVars == <<waitArgs, exists, newExists, responseMap, cycles, newMail>>
archiveVars == <<bOnlyUpdates, folder, mailbox, searchUID, indexes, fetched,
                 mailBoxList, box, mailMessages>>
mailVars == <<waitVars, archiveVars>>

EmptyMap == [x \in {} |-> DefaultDateTime]

\* EXIT_SUCCESS and EXIT_FAILURE
ExitSuccess == 0
ExitFailure == 1

\* exitStatus while the process runs, and after exit(status)
Running == <<>>
Exited(status) == <<status>>

Op(op, pass, path, ok) == [op |-> op, pass |-> pass, path |-> path, ok |-> ok]

\* --------------------------------------------------------------------------
\* The command line
\* --------------------------------------------------------------------------

\* the options a program declares, besides --server, --port, --user and
\* --password (and --mailbox of WaitForMailBoxEvent), which every command
\* line of the model carries
Declared(p) ==
    CASE p = "FTPBackup" -> {"help", "config", "local"}
      [] p \in {"FTPSync", "FTPRestore", "SCPBackup", "SFTPRestore"} ->
            {"help", "config", "local", "remote"}
      [] p = "WaitForMailBoxEvent" -> {"help", "config", "wait", "poll"}
      [] p = "ArchiveMailBox" ->
            {"help", "config", "mailbox", "destination", "updates", "all"}

\* the declared options that are required()
Required(p) ==
    CASE p = "FTPBackup" -> {"local"}
      [] p \in {"FTPSync", "FTPRestore", "SCPBackup", "SFTPRestore"} ->
            {"local", "remote"}
      [] p = "WaitForMailBoxEvent" -> {"config"}
      [] p = "ArchiveMailBox" -> {"config", "mailbox", "destination"}

\* the options of the description configFile, which parse_config_file is
\* given: those of addCommonOptions, so neither help nor config
ConfigDeclared(p) == Declared(p) \ {"help", "config"}

\* a command line is the options of argv (given), whether the file --config
\* names exists, and the options that file holds (inConfig). The file is read
\* when --config is given and the file exists.
ConfigRead(line) == "config" \in line.given /\ line.configExists

\* the options of the variables map vm after both stores
VmOptions(line) == line.given \cup (IF ConfigRead(line) THEN line.inConfig ELSE {})

\* the value parse_config_file hands over for the text after the = of a
\* line: the line is cut at its first # (a comment), and the blanks, tabs and
\* line ends around what is left are dropped
ConfigValue(text) ==
    LET marks == {i \in 1..Len(text) : text[i] = "#"}
        kept == IF marks = {} THEN text
                ELSE SubSeq(text, 1, (CHOOSE i \in marks : \A k \in marks : i <= k) - 1)
        others == {i \in 1..Len(kept) : kept[i] \notin {" ", "\t", "\r", "\n"}}
    IN  IF others = {} THEN <<>>
        ELSE SubSeq(kept, CHOOSE i \in others : \A k \in others : i <= k,
                          CHOOSE i \in others : \A k \in others : k <= i)

\* the value of an option in vm: that of argv when argv has the option (the
\* first store wins), else that of the config file
OptionValue(line, name) ==
    IF name \in line.given THEN line[name] ELSE ConfigValue(line[name])

\* procCmdLine up to po::notify. parse_command_line throws on an option of
\* argv the program does not declare, --help of argv is answered before the
\* config file is looked at, a --config file that does not exist is a
\* po::error, parse_config_file throws on an option the description
\* configFile does not declare, and notify throws when a required option is
\* in neither place.
ParseCmdLine(p, line) ==
    IF line.given \ Declared(p) # {} THEN "error"
    ELSE IF "help" \in line.given THEN "help"
    ELSE IF "config" \in line.given /\ ~line.configExists THEN "error"
    ELSE IF ConfigRead(line) /\ line.inConfig \ ConfigDeclared(p) # {} THEN "error"
    ELSE IF Required(p) \ VmOptions(line) # {} THEN "error"
    ELSE "accepted"

\* the two exits of procCmdLine: exit(EXIT_SUCCESS) after the help text,
\* exit(EXIT_FAILURE) in its catch of po::error
CmdLineExit(outcome) ==
    /\ pc' = "exited"
    /\ exitStatus' = Exited(IF outcome = "help" THEN ExitSuccess ELSE ExitFailure)

\* an option that no program declares
OtherOption == "other"

\* a file that is not named holds nothing
WellFormed(line) ==
    /\ line.configExists => "config" \in line.given
    /\ line.inConfig # {} => line.configExists

\* the command lines of the programs that take directories: the options of
\* argv, whether the file --config names exists, the options the file
\* holds, and the values of --local and --remote, from either place
DirectoryCmdLines ==
    {line \in [given : SUBSET {"help", "config", "local", "remote", OtherOption},
               configExists : BOOLEAN,
               inConfig : SUBSET {"help", "local", "remote", OtherOption},
               local : LocalArgs \cup {<<>>},
               remote : RemoteArgs \cup {<<>>}] :
        /\ WellFormed(line)
        /\ ("local" \in line.given \cup line.inConfig) <=> (line.local # <<>>)
        /\ ("remote" \in line.given \cup line.inConfig) <=> (line.remote # <<>>)}

\* a process whose options all come from argv: the processes that take some
\* from the config file end up with the same argData
FromArgv(p, line) == ParseCmdLine(p, line) = "accepted" /\ line.inConfig = {}

\* the mail programs do not run
NoMail ==
    /\ waitArgs = [bPolls |-> FALSE, bWaitForNewMail |-> FALSE]
    /\ exists = 0
    /\ newExists = 0
    /\ responseMap = EmptyMap
    /\ cycles = 0
    /\ newMail = FALSE
    /\ bOnlyUpdates = FALSE
    /\ folder = {}
    /\ mailbox = {}
    /\ searchUID = 0
    /\ indexes = <<>>
    /\ fetched = <<>>
    /\ mailBoxList = <<>>
    /\ box = 1
    /\ mailMessages = EmptyMap

\* a process that procCmdLine ends looks at no tree: its initial states are
\* told apart by the command line only
NoTrees == localFS = EmptyMap /\ remoteFS = EmptyMap /\ rootExists

Init ==
    /\ argv \in DirectoryCmdLines
    /\ argData = [localDirectory |-> <<>>, remoteDirectory |-> <<>>]
    /\ pc = "start"
    /\ run = 1
    /\ localFS \in LocalTrees
    /\ remoteFS \in RemoteTrees
    /\ rootExists \in BOOLEAN
    /\ (~rootExists => remoteFS = EmptyMap)
    /\ (FromArgv("FTPSync", argv) \/ NoTrees)
    /\ connected = FALSE
    /\ localFiles = <<>>
    /\ remoteFiles = <<>>
    /\ newFiles = <<>>
    /\ newFilesTransfered = <<>>
    /\ idx = 1
    /\ remoteFileModifiedTimes = EmptyMap
    /\ oracleBuilt = EmptyMap
    /\ log = <<>>
    /\ prevClean = FALSE
    /\ exitStatus = Running
    /\ mapIn = <<>>
    /\ mapOut = Thrown
    /\ remoteListed = EmptyMap
    /\ fileList = <<>>
    /\ filesDone = <<>>
    /\ prog = "FTPSync"
    /\ sftpOpen = FALSE
    /\ report = <<>>
    /\ NoMail

\* exitWithError, reached from the catch of main
Fatal ==
    /\ pc' = "failed"
    /\ exitStatus' = Exited(ExitFailure)

\* procCmdLine
ProcCmdLine ==
    /\ UNCHANGED <<remoteListed, copyVars, mailVars>>
    /\ pc = "start"
    /\ IF ParseCmdLine(prog, argv) = "accepted"
       THEN /\ argData' = [localDirectory |-> NormalizeLocal(OptionValue(argv, "local")),
                           remoteDirectory |-> OptionValue(argv, "remote")]
            /\ pc' = "connect"
            /\ UNCHANGED exitStatus
       ELSE /\ CmdLineExit(ParseCmdLine(prog, argv))
            /\ UNCHANGED argData
    /\ UNCHANGED <<argv, run, localFS, remoteFS, rootExists, connected, procVars,
                   log, prevClean, mapVars>>

\* variant of the reply test that takes every reply for a login
ConnectRefusedNever(reply) == FALSE

\* the test of the reply of connect
ConnectRefused(reply) == reply # LoggedIn

\* ftpServer.connect() and the test of its reply
Connect ==
    /\ UNCHANGED <<remoteListed, copyVars, mailVars>>
    /\ pc = "connect"
    /\ \E reply \in Replies(LoggedIn) :
          /\ log' = Append(log, Op("connect", 0, <<>>, reply = LoggedIn))
          /\ IF ConnectRefused(reply)
             THEN Fatal /\ UNCHANGED connected
             ELSE /\ connected' = TRUE
                  /\ pc' = "mkroot"
                  /\ UNCHANGED exitStatus
    /\ UNCHANGED <<argv, argData, run, localFS, remoteFS, rootExists, procVars,
                   prevClean, mapVars>>

\* the remote directory is created when it does not exist
MakeRemoteRoot ==
    /\ UNCHANGED <<remoteListed, copyVars, mailVars>>
    /\ pc = "mkroot"
    /\ IF rootExists
       THEN /\ pc' = "cwd"
            /\ UNCHANGED <<rootExists, exitStatus, log>>
       ELSE \E made \in BOOLEAN :
               /\ rootExists' = made
               /\ log' = Append(log, Op("makeRemotePath", 0, argData.remoteDirectory, made))
               /\ IF made
                  THEN pc' = "cwd" /\ UNCHANGED exitStatus
                  ELSE Fatal
    /\ UNCHANGED <<argv, argData, run, localFS, remoteFS, connected, procVars,
                   prevClean, mapVars>>

\* the server's name for a directory: no trailing separator
ServerCwd(dir) ==
    IF Len(dir) > 1 /\ dir[Len(dir)] = "/" THEN SubSeq(dir, 1, Len(dir) - 1) ELSE dir

\* changeWorkingDirectory, then getCurrentWoringDirectory into argData
WorkingDirectory ==
    /\ UNCHANGED <<remoteListed, copyVars, mailVars>>
    /\ pc = "cwd"
    /\ argData' = [argData EXCEPT !.remoteDirectory = ServerCwd(argData.remoteDirectory)]
    /\ pc' = "list"
    /\ UNCHANGED <<argv, run, localFS, remoteFS, rootExists, connected, procVars,
                   log, prevClean, exitStatus, mapVars>>

\* the paths of a tree below dir, in directory order
IsPrefix(r, p) == Len(r) <= Len(p) /\ SubSeq(p, 1, Len(r)) = r

Below(dir, sep) ==
    [i \in 1..Len(SuffixOrder) |-> dir \o sep \o SuffixOrder[i]]

Listing(fs, dir, sep) ==
    SelectSeq(Below(dir, sep), LAMBDA p : p \in DOMAIN fs)

\* listRemoteRecursive and listLocalRecursive
ListTrees ==
    /\ UNCHANGED <<copyVars, mailVars>>
    /\ pc = "list"
    /\ \E listed \in BOOLEAN :
          /\ log' = Append(log, Op("list", 0, argData.remoteDirectory, listed))
          /\ IF listed
             THEN /\ remoteListed' = remoteFS
                  /\ remoteFiles' = Listing(remoteFS, argData.remoteDirectory, <<"/">>)
                  /\ localFiles' = Listing(localFS, argData.localDirectory, <<>>)
                  /\ pc' = "plan1"
                  /\ UNCHANGED exitStatus
             ELSE Fatal /\ UNCHANGED <<remoteFiles, localFiles, remoteListed>>
    /\ UNCHANGED <<argv, argData, run, localFS, remoteFS, rootExists, connected,
                   newFiles, newFilesTransfered, idx, remoteFileModifiedTimes,
                   oracleBuilt, prevClean, mapVars>>

\* --------------------------------------------------------------------------
\* PASS 1: copy new files to the server
\* --------------------------------------------------------------------------

\* the std::out_of_range of a mapping, as the catch of main sees it
MapThrown == Op("map", 0, <<>>, FALSE)

\* variant of NewFiles that takes every local file for new
NewFilesAll(arg, local, remote) == local

\* variant of NewFiles that finds no new file
NewFilesNone(arg, local, remote) == <<>>

\* the local files whose mapped path std::find does not find in remoteFiles
NewFiles(arg, local, remote) ==
    SelectSeq(local, LAMBDA file : localFileToRemote(arg, file).val \notin Range(remote))

\* a mapping of one of the files throws (std::out_of_range)
MappingThrows(arg, files) ==
    \E i \in 1..Len(files) : ~localFileToRemote(arg, files[i]).ok

\* the loop that fills newFiles
PlanNewFiles ==
    /\ UNCHANGED <<remoteListed, copyVars, mailVars>>
    /\ pc = "plan1"
    /\ IF MappingThrows(argData, localFiles)
       THEN Fatal /\ log' = Append(log, MapThrown) /\ UNCHANGED newFiles
       ELSE /\ newFiles' = NewFiles(argData, localFiles, remoteFiles)
            /\ pc' = "exec1"
            /\ UNCHANGED <<exitStatus, log>>
    /\ UNCHANGED <<argv, argData, run, localFS, remoteFS, rootExists, connected,
                   localFiles, remoteFiles, newFilesTransfered, idx,
                   remoteFileModifiedTimes, oracleBuilt, prevClean, mapVars>>

\* the modification time the server copy of a transferred local entry carries
StoredTime(entry) == IF entry = Directory THEN MaxTime ELSE entry

\* the server tree after the entries of the local paths in done are stored
Stored(fs, arg, done) ==
    LET targets == {localFileToRemote(arg, p).val : p \in done}
        source(r) == CHOOSE p \in done : localFileToRemote(arg, p).val = r
    IN  [r \in DOMAIN fs \cup targets |->
            IF r \in targets THEN StoredTime(localFS[source(r)]) ELSE fs[r]]

\* putFiles: the remote paths of the files it transferred, in order
Transferred(arg, files, done) ==
    LET kept == SelectSeq(files, LAMBDA file : file \in done)
    IN  [i \in 1..Len(kept) |-> localFileToRemote(arg, kept[i]).val]

PutLog(files, done) ==
    [i \in 1..Len(files) |-> Op("put", 1, files[i], files[i] \in done)]

\* variant that drops the transferred files
AfterCopyNone(remote, transferred) == remote

\* remoteFiles after std::copy with back_inserter
AfterCopy(remote, transferred) == remote \o transferred

\* variant of PutNewFiles whose std::copy appends to localFiles
PutNewFilesIntoLocal ==
    /\ UNCHANGED <<remoteListed, copyVars, mailVars>>
    /\ pc = "exec1"
    /\ IF newFiles # <<>>
       THEN \E done \in SUBSET Range(newFiles) :
               /\ newFilesTransfered' = Transferred(argData, newFiles, done)
               /\ localFiles' = AfterCopy(localFiles, newFilesTransfered')
               /\ UNCHANGED remoteFiles
               /\ remoteFS' = Stored(remoteFS, argData, done)
               /\ log' = log \o PutLog(newFiles, done)
       ELSE UNCHANGED <<newFilesTransfered, remoteFiles, localFiles, remoteFS, log>>
    /\ pc' = "pass2"
    /\ idx' = 1
    /\ UNCHANGED <<argv, argData, run, localFS, rootExists, connected,
                   newFiles, remoteFileModifiedTimes, oracleBuilt, prevClean,
                   exitStatus, mapVars>>

\* putFiles on the new files, and the copy of its result into remoteFiles
PutNewFiles ==
    /\ UNCHANGED <<remoteListed, copyVars, mailVars>>
    /\ pc = "exec1"
    /\ IF newFiles # <<>>
       THEN \E done \in SUBSET Range(newFiles) :
               /\ newFilesTransfered' = Transferred(argData, newFiles, done)
               /\ remoteFiles' = AfterCopy(remoteFiles, newFilesTransfered')
               /\ remoteFS' = Stored(remoteFS, argData, done)
               /\ log' = log \o PutLog(newFiles, done)
       ELSE UNCHANGED <<newFilesTransfered, remoteFiles, remoteFS, log>>
    /\ pc' = "pass2"
    /\ idx' = 1
    /\ UNCHANGED <<argv, argData, run, localFS, rootExists, connected, localFiles,
                   newFiles, remoteFileModifiedTimes, oracleBuilt, prevClean,
                   exitStatus, mapVars>>

\* --------------------------------------------------------------------------
\* PASS 2: remove from the server the files deleted locally
\* --------------------------------------------------------------------------

\* variant that takes every remote file for an orphan
OrphanAlways(arg, local, file) == TRUE

\* the test of the loop: the mapped path is not among the local files
Orphan(arg, local, file) ==
    remoteFileToLocal(arg, file).val \notin Range(local)

\* variant in which a file that cannot be removed ends the run
CouldNotRemoveThrows == Fatal

\* neither deleteFile nor removeDirectory removed the file: a message, and the
\* loop goes on
CouldNotRemove == UNCHANGED <<pc, exitStatus>>

\* the calls made for an orphan: deleteFile, and removeDirectory when the reply
\* of deleteFile is not 250
RemovalCalls(file, del, rmd) ==
    IF del = FileActionOk
    THEN << Op("deleteFile", 2, file, TRUE) >>
    ELSE << Op("deleteFile", 2, file, FALSE),
            Op("removeDirectory", 2, file, rmd = FileActionOk) >>

\* the tree without a path
Removed(fs, file) == [r \in DOMAIN fs \ {file} |-> fs[r]]

\* one iteration of the loop over remoteFiles
RemoveDeleted ==
    /\ UNCHANGED <<remoteListed, copyVars, mailVars>>
    /\ pc = "pass2"
    /\ idx <= Len(remoteFiles)
    /\ LET file == remoteFiles[idx]
       IN  IF ~remoteFileToLocal(argData, file).ok
           THEN Fatal /\ log' = Append(log, MapThrown) /\ UNCHANGED <<idx, remoteFS>>
           ELSE /\ idx' = idx + 1
                /\ IF Orphan(argData, localFiles, file)
                   THEN \E del \in Replies(FileActionOk) :
                           /\ (del = FileActionOk => file \in DOMAIN remoteFS)
                           /\ IF del = FileActionOk
                              THEN /\ remoteFS' = Removed(remoteFS, file)
                                   /\ log' = log \o RemovalCalls(file, del, del)
                                   /\ UNCHANGED <<pc, exitStatus>>
                              ELSE \E rmd \in Replies(FileActionOk) :
                                      /\ (rmd = FileActionOk => file \in DOMAIN remoteFS)
                                      /\ log' = log \o RemovalCalls(file, del, rmd)
                                      /\ IF rmd = FileActionOk
                                         THEN /\ remoteFS' = Removed(remoteFS, file)
                                              /\ UNCHANGED <<pc, exitStatus>>
                                         ELSE /\ UNCHANGED remoteFS
                                              /\ CouldNotRemove
                   ELSE UNCHANGED <<remoteFS, log, pc, exitStatus>>
    /\ UNCHANGED <<argv, argData, run, localFS, rootExists, connected, localFiles,
                   remoteFiles, newFiles, newFilesTransfered,
                   remoteFileModifiedTimes, oracleBuilt, prevClean, mapVars>>

\* the loop over remoteFiles ends
RemoveDeletedEnd ==
    /\ UNCHANGED <<remoteListed, copyVars, mailVars>>
    /\ pc = "pass2"
    /\ idx > Len(remoteFiles)
    /\ pc' = "oracle"
    /\ idx' = 1
    /\ UNCHANGED <<argv, argData, run, localFS, remoteFS, rootExists, connected,
                   localFiles, remoteFiles, newFiles, newFilesTransfered,
                   remoteFileModifiedTimes, oracleBuilt, log, prevClean,
                   exitStatus, mapVars>>

\* --------------------------------------------------------------------------
\* PASS 3: copy updated local files to the server
\* --------------------------------------------------------------------------

\* one iteration of the loop that fills remoteFileModifiedTimes
FillModifiedTimes ==
    /\ UNCHANGED <<remoteListed, copyVars, mailVars>>
    /\ pc = "oracle"
    /\ idx <= Len(remoteFiles)
    /\ LET file == remoteFiles[idx]
       IN  \E reply \in Replies(FileStatus) :
              /\ (reply = FileStatus => file \in DOMAIN remoteFS)
              /\ log' = Append(log, Op("getModifiedDateTime", 3, file,
                                       reply = FileStatus))
              /\ remoteFileModifiedTimes' =
                    IF reply = FileStatus
                    THEN [r \in DOMAIN remoteFileModifiedTimes \cup {file} |->
                             IF r = file THEN remoteFS[file]
                             ELSE remoteFileModifiedTimes[r]]
                    ELSE remoteFileModifiedTimes
    /\ idx' = idx + 1
    /\ UNCHANGED <<argv, argData, pc, run, localFS, remoteFS, rootExists, connected,
                   localFiles, remoteFiles, newFiles, newFilesTransfered,
                   oracleBuilt, prevClean, exitStatus, mapVars>>

\* the fill loop ends
FillModifiedTimesEnd ==
    /\ UNCHANGED <<remoteListed, copyVars, mailVars>>
    /\ pc = "oracle"
    /\ idx > Len(remoteFiles)
    /\ oracleBuilt' = remoteFileModifiedTimes
    /\ pc' = "pass3"
    /\ idx' = 1
    /\ UNCHANGED <<argv, argData, run, localFS, remoteFS, rootExists, connected,
                   localFiles, remoteFiles, newFiles, newFilesTransfered,
                   remoteFileModifiedTimes, log, prevClean, exitStatus, mapVars>>

\* CFile::isFile
isFile(file) == localFS[file] # Directory

\* CFile::lastWriteTime
lastWriteTime(file) == localFS[file]

\* std::unordered_map::operator[]: an absent key is inserted with a
\* default-constructed value
Subscript(map, key) ==
    [r \in DOMAIN map \cup {key} |-> IF r \in DOMAIN map THEN map[r] ELSE DefaultDateTime]

\* variant that also updates on equal times
OutOfDateOrEqual(remoteTime, localTime) == remoteTime <= localTime

\* the comparison that decides the update: the server file is older
OutOfDate(remoteTime, localTime) == remoteTime < localTime

\* one iteration of the loop over localFiles
CopyUpdated ==
    /\ UNCHANGED <<remoteListed, copyVars, mailVars>>
    /\ pc = "pass3"
    /\ idx <= Len(localFiles)
    /\ LET file == localFiles[idx]
           remote == localFileToRemote(argData, file)
       IN  IF ~isFile(file)
           THEN /\ idx' = idx + 1
                /\ UNCHANGED <<pc, exitStatus, remoteFileModifiedTimes, remoteFS, log>>
           ELSE IF ~remote.ok
           THEN /\ Fatal
                /\ log' = Append(log, MapThrown)
                /\ UNCHANGED <<idx, remoteFileModifiedTimes, remoteFS>>
           ELSE /\ idx' = idx + 1
                /\ UNCHANGED <<pc, exitStatus>>
                /\ remoteFileModifiedTimes' = Subscript(remoteFileModifiedTimes, remote.val)
                /\ IF OutOfDate(remoteFileModifiedTimes'[remote.val], lastWriteTime(file))
                   THEN \E reply \in Replies(TransferComplete) :
                           /\ log' = Append(log, Op("put", 3, file,
                                                    reply = TransferComplete))
                           /\ remoteFS' = IF reply = TransferComplete
                                          THEN Stored(remoteFS, argData, {file})
                                          ELSE remoteFS
                   ELSE UNCHANGED <<remoteFS, log>>
    /\ UNCHANGED <<argv, argData, run, localFS, rootExists, connected, localFiles,
                   remoteFiles, newFiles, newFilesTransfered, oracleBuilt,
                   prevClean, mapVars>>

\* the loop over localFiles ends
CopyUpdatedEnd ==
    /\ UNCHANGED <<remoteListed, copyVars, mailVars>>
    /\ pc = "pass3"
    /\ idx > Len(localFiles)
    /\ pc' = "disconnect"
    /\ UNCHANGED <<argv, argData, run, localFS, remoteFS, rootExists, connected,
                   procVars, log, prevClean, exitStatus, mapVars>>

\* variant of the final status that reports a failed transfer
FinalStatusStrict(l) ==
    IF \E i \in 1..Len(l) : l[i].op = "put" /\ ~l[i].ok THEN ExitFailure ELSE ExitSuccess

\* variant of the final status that wants at least one transferred file
FinalStatusNeedsTransfer(l) ==
    IF \E i \in 1..Len(l) : l[i].op = "put" /\ l[i].ok THEN ExitSuccess ELSE ExitFailure

\* the status main gives to exit after the passes
FinalStatus(l) == ExitSuccess

\* ftpServer.disconnect(), then exit(EXIT_SUCCESS)
Disconnect ==
    /\ UNCHANGED <<remoteListed, copyVars, mailVars>>
    /\ pc = "disconnect"
    /\ connected' = FALSE
    /\ log' = Append(log, Op("disconnect", 0, <<>>, TRUE))
    /\ pc' = "done"
    /\ exitStatus' = Exited(FinalStatus(log'))
    /\ UNCHANGED <<argv, argData, run, localFS, remoteFS, rootExists, procVars,
                   prevClean, mapVars>>

\* --------------------------------------------------------------------------
\* What main prints about the items
\* --------------------------------------------------------------------------

\* the line main prints for one item after a call: its pass, the path it
\* names, and whether it names a success (std::cout) or a failure (std::cerr)
Line(pass, path, ok) == [pass |-> pass, path |-> path, ok |-> ok]

\* the lines main prints about single items after the call e. Pass 1 prints
\* only the number of files putFiles returned; a failed deleteFile prints
\* nothing by itself, the removeDirectory that follows decides the line.
ItemLines(e) ==
    IF e.op = "put" /\ e.pass = 3 THEN {Line(3, e.path, e.ok)}
    ELSE IF e.op = "deleteFile" /\ e.ok THEN {Line(2, e.path, TRUE)}
    ELSE IF e.op = "removeDirectory" THEN {Line(2, e.path, e.ok)}
    ELSE {}

\* everything main printed about single items
Printed(l) == UNION {ItemLines(l[i]) : i \in 1..Len(l)}

\* --------------------------------------------------------------------------
\* The program is run a second time
\* --------------------------------------------------------------------------

Ops(l, names) == {i \in 1..Len(l) : l[i].op \in names}

\* every put of the log succeeded
PutsOk(l) == \A i \in Ops(l, {"put"}) : l[i].ok

\* every orphan of the log was removed, as a file or as a directory
RemovalsOk(l) ==
    \A i \in Ops(l, {"deleteFile"}) :
        \/ l[i].ok
        \/ \E j \in Ops(l, {"removeDirectory"}) : l[j].path = l[i].path /\ l[j].ok

\* a new process on the same command line; the trees are as the first run left them
RunAgain ==
    /\ pc = "done"
    /\ run = 1
    /\ run' = 2
    /\ prevClean' = (PutsOk(log) /\ RemovalsOk(log))
    /\ pc' = "start"
    /\ argData' = [localDirectory |-> <<>>, remoteDirectory |-> <<>>]
    /\ localFiles' = <<>>
    /\ remoteFiles' = <<>>
    /\ newFiles' = <<>>
    /\ newFilesTransfered' = <<>>
    /\ idx' = 1
    /\ remoteFileModifiedTimes' = EmptyMap
    /\ oracleBuilt' = EmptyMap
    /\ log' = <<>>
    /\ exitStatus' = Running
    /\ remoteListed' = EmptyMap
    /\ UNCHANGED <<argv, localFS, remoteFS, rootExists, connected, mapVars, copyVars,
                   mailVars>>

Next ==
    \/ ProcCmdLine
    \/ Connect
    \/ MakeRemoteRoot
    \/ WorkingDirectory
    \/ ListTrees
    \/ PlanNewFiles
    \/ PutNewFiles
    \/ RemoveDeleted
    \/ RemoveDeletedEnd
    \/ FillModifiedTimes
    \/ FillModifiedTimesEnd
    \/ CopyUpdated
    \/ CopyUpdatedEnd
    \/ Disconnect
    \/ RunAgain

Spec == Init /\ [][Next]_vars

\* the process is scheduled until it exits
FairSpec == Spec /\ WF_vars(Next)

\* --------------------------------------------------------------------------
\* The path mapping on its own: any roots, any path
\* --------------------------------------------------------------------------

Chars == {"/", "a"}

\* the strings of at most n characters
Strings(n) == UNION {[1..k -> Chars] : k \in 0..n}

MapInit ==
    /\ argv \in [local : Strings(MaxLen) \ {<<>>}, remote : Strings(MaxLen)]
    /\ argData = [localDirectory |-> <<>>, remoteDirectory |-> <<>>]
    /\ pc = "start"
    /\ run = 1
    /\ localFS = EmptyMap
    /\ remoteFS = EmptyMap
    /\ rootExists = TRUE
    /\ connected = FALSE
    /\ localFiles = <<>>
    /\ remoteFiles = <<>>
    /\ newFiles = <<>>
    /\ newFilesTransfered = <<>>
    /\ idx = 1
    /\ remoteFileModifiedTimes = EmptyMap
    /\ oracleBuilt = EmptyMap
    /\ log = <<>>
    /\ prevClean = FALSE
    /\ exitStatus = Running
    /\ mapIn = <<>>
    /\ mapOut = Thrown
    /\ remoteListed = EmptyMap
    /\ fileList = <<>>
    /\ filesDone = <<>>
    /\ prog = "FTPSync"
    /\ sftpOpen = FALSE
    /\ report = <<>>
    /\ NoMail

mainVars == <<argv, run, localFS, remoteFS, rootExists, connected, procVars, log,
              prevClean, exitStatus, remoteListed, copyVars, mailVars>>

\* procCmdLine; the remote root is the one in use when the passes run
MapRoots ==
    /\ pc = "start"
    /\ argData' = [localDirectory |-> NormalizeLocal(argv.local),
                   remoteDirectory |-> argv.remote]
    /\ pc' = "roots"
    /\ UNCHANGED <<mainVars, mapVars>>

\* localFileToRemote on a path, below the local root or not
MapLocalFile ==
    /\ pc = "roots"
    /\ \E path \in Strings(MaxLen) \cup
                   {argData.localDirectory \o t : t \in Strings(MaxLen)} :
          /\ mapIn' = path
          /\ mapOut' = localFileToRemote(argData, path)
    /\ pc' = "remote"
    /\ UNCHANGED <<mainVars, argData>>

\* remoteFileToLocal on the path localFileToRemote returned
MapBack ==
    /\ pc = "remote"
    /\ mapOut.ok
    /\ mapOut' = remoteFileToLocal(argData, mapOut.val)
    /\ pc' = "back"
    /\ UNCHANGED <<mainVars, argData, mapIn>>

\* remoteFileToLocal on a path, below the remote root or not
MapRemoteFile ==
    /\ pc = "roots"
    /\ \E path \in Strings(MaxLen) \cup
                   {argData.remoteDirectory \o t : t \in Strings(MaxLen)} :
          /\ mapIn' = path
          /\ mapOut' = remoteFileToLocal(argData, path)
    /\ pc' = "local"
    /\ UNCHANGED <<mainVars, argData>>

MapNext == MapRoots \/ MapLocalFile \/ MapBack \/ MapRemoteFile

SpecMap == MapInit /\ [][MapNext]_vars

\* --------------------------------------------------------------------------
\* Numbers and their text
\* --------------------------------------------------------------------------

DigitChars == <<"0", "1", "2", "3", "4", "5", "6", "7", "8", "9">>

IsDigit(c) == \E i \in 1..Len(DigitChars) : DigitChars[i] = c
DigitVal(c) == (CHOOSE i \in 1..Len(DigitChars) : DigitChars[i] = c) - 1

\* std::to_string of a small number, and the text of a number as the server
\* sends it
RECURSIVE Decimal(_)
Decimal(n) ==
    IF n < Len(DigitChars) THEN << DigitChars[n + 1] >>
    ELSE Append(Decimal(n \div Len(DigitChars)), DigitChars[(n % Len(DigitChars)) + 1])

\* std::isspace in the "C" locale: blank, \t, \n, \r, \f and the vertical
\* tab, which is written as the character itself
VerticalTab == ""
IsSpace(c) == c \in {" ", "\t", "\n", "\r", "\f", VerticalTab}

\* the widths of unsigned long long and of int
ULLongBits == 64
IntBits == 32

\* an unsigned long long is kept as limbs of half an int, lowest first, so
\* that every product of the arithmetic below fits
LimbBase == 2 ^ (IntBits \div 2)
LimbCount == (2 * ULLongBits) \div IntBits

\* 0 and ULLONG_MAX
ULLongZero == [k \in 1..LimbCount |-> 0]
ULLongMax == [k \in 1..LimbCount |-> LimbBase - 1]

\* the unsigned long long of a number below 2^31
ULLong(n) == [k \in 1..LimbCount |-> IF k = 1 THEN n % LimbBase
                                     ELSE IF k = 2 THEN n \div LimbBase ELSE 0]

\* x * 10 + digit in 64 bits, and whether it went over ULLONG_MAX
RECURSIVE MulAddFrom(_, _, _, _)
MulAddFrom(x, k, carry, out) ==
    IF k > Len(x) THEN [val |-> out, over |-> carry # 0]
    ELSE LET t == x[k] * Len(DigitChars) + carry
         IN  MulAddFrom(x, k + 1, t \div LimbBase, Append(out, t % LimbBase))

MulAdd(x, digit) == MulAddFrom(x, 1, digit, <<>>)

\* the negation of an unsigned long long: 2^64 - x, and 0 for 0
RECURSIVE NegateFrom(_, _, _, _)
NegateFrom(x, k, carry, out) ==
    IF k > Len(x) THEN out
    ELSE LET t == (LimbBase - 1 - x[k]) + carry
         IN  NegateFrom(x, k + 1, t \div LimbBase, Append(out, t % LimbBase))

Negate(x) == NegateFrom(x, 1, 1, <<>>)

\* x < y for two unsigned long long
RECURSIVE LessFrom(_, _, _)
LessFrom(x, y, k) ==
    IF k = 0 THEN FALSE
    ELSE IF x[k] # y[k] THEN x[k] < y[k]
    ELSE LessFrom(x, y, k - 1)

Less(x, y) == LessFrom(x, y, LimbCount)

\* x divided by 10: quotient and remainder
RECURSIVE DivTenFrom(_, _, _, _)
DivTenFrom(x, k, rem, out) ==
    IF k = 0 THEN [quot |-> out, rem |-> rem]
    ELSE LET t == rem * LimbBase + x[k]
         IN  DivTenFrom(x, k - 1, t % Len(DigitChars),
                        << t \div Len(DigitChars) >> \o out)

DivTen(x) == DivTenFrom(x, LimbCount, 0, <<>>)

\* std::to_string of an unsigned long long
RECURSIVE ULLongText(_)
ULLongText(x) ==
    LET d == DivTen(x)
    IN  IF d.quot = ULLongZero THEN << DigitChars[d.rem + 1] >>
        ELSE Append(ULLongText(d.quot), DigitChars[d.rem + 1])

\* the first position of s from i on that holds no white space
RECURSIVE SkipSpace(_, _)
SkipSpace(s, i) ==
    IF i <= Len(s) /\ IsSpace(s[i]) THEN SkipSpace(s, i + 1) ELSE i

\* a number in 64 bits with one more digit
Shifted(number, digit) ==
    LET m == MulAdd(number.val, digit)
    IN  [val |-> m.val, over |-> number.over \/ m.over]

\* the digits of s from position i on, as a number: its value in 64 bits,
\* whether it went over ULLONG_MAX, and the position after its last digit
\* (the set constructor has the number computed once for each digit)
RECURSIVE Accumulate(_, _, _)
Accumulate(s, i, number) ==
    IF i > Len(s) \/ ~IsDigit(s[i])
    THEN [val |-> number.val, over |-> number.over, end |-> i]
    ELSE CHOOSE result \in {Accumulate(s, i + 1, next) :
                                next \in {Shifted(number, DigitVal(s[i]))}} : TRUE

\* the subject sequence of strtol and strtoull in base 10: leading white
\* space, an optional sign, then digits
Scan(s) ==
    LET i == SkipSpace(s, 1)
        signed == i <= Len(s) /\ s[i] \in {"+", "-"}
        from == IF signed THEN i + 1 ELSE i
        number == Accumulate(s, from, [val |-> ULLongZero, over |-> FALSE])
    IN  [digits |-> number.end > from,
         negative |-> signed /\ s[i] = "-",
         magnitude |-> number.val,
         over |-> number.over]

\* std::strtoull(text, nullptr, 10): 0 when the text starts with no number,
\* ULLONG_MAX when the number is out of range, the negation in 64 bits of a
\* number with a minus sign
Strtoull(s) ==
    LET n == Scan(s)
    IN  IF ~n.digits THEN ULLongZero
        ELSE IF n.over THEN ULLongMax
        ELSE IF n.negative THEN Negate(n.magnitude)
        ELSE n.magnitude

\* the conversion of an unsigned long long to int: its low 32 bits, read as
\* two's complement
NarrowToInt(x) ==
    IF x[2] >= LimbBase \div 2
    THEN (x[2] - LimbBase) * LimbBase + x[1]
    ELSE x[2] * LimbBase + x[1]

\* a scanned number is in the range of int
FitsInt(n) ==
    /\ ~n.over
    /\ \A k \in 3..LimbCount : n.magnitude[k] = 0
    /\ \/ n.magnitude[2] < LimbBase \div 2
       \/ n.negative /\ n.magnitude[2] = LimbBase \div 2 /\ n.magnitude[1] = 0

\* std::stoi(text): throws std::invalid_argument when the text starts with no
\* number and std::out_of_range when the number is no int
Stoi(s) ==
    LET n == Scan(s)
    IN  IF ~n.digits \/ ~FitsInt(n) THEN Thrown
        ELSE IF n.negative
             THEN Value((0 - n.magnitude[2]) * LimbBase - n.magnitude[1])
             ELSE Value(n.magnitude[2] * LimbBase + n.magnitude[1])

\* --------------------------------------------------------------------------
\* FTPBackup, SCPBackup, FTPRestore, SFTPRestore
\* --------------------------------------------------------------------------

Programs == {"FTPBackup", "SCPBackup", "FTPRestore", "SFTPRestore"}

IsBackup(p) == p \in {"FTPBackup", "SCPBackup"}
IsSSH(p) == p \in {"SCPBackup", "SFTPRestore"}

\* the variables only FTPSync uses
syncVars == <<run, rootExists, procVars, prevClean, mapVars, remoteListed>>

\* the two directories as the file systems name them
CopyRoots == [localDirectory |-> LocalBase, remoteDirectory |-> ServerBase]

\* the values of --port: a port number, a text that is no number, a number
\* that is no int
PortNumber == <<"2", "2">>
Ports == {PortNumber, <<"a">>,
          <<"9", "9", "9", "9", "9", "9", "9", "9", "9", "9", "9">>}

\* std::stoi of each of these texts
PortOf == [text \in Ports |-> Stoi(text)]

\* the text of --port is converted by the SSH programs only, and the FTP
\* programs hand it to the library as it is: the initial states of the other
\* runs are not told apart by it
ReadsPort(p, line) == IsSSH(p) /\ ParseCmdLine(p, line) = "accepted"

\* a process that ends in procCmdLine or in std::stoi looks at no tree
ReadsTrees(p, line) ==
    /\ FromArgv(p, line)
    /\ IsSSH(p) => PortOf[line.port].ok

\* the command lines of the four programs
CopyCmdLines ==
    {[given |-> line.given, configExists |-> line.configExists,
      inConfig |-> line.inConfig, local |-> line.local, remote |-> line.remote,
      port |-> port] :
        line \in DirectoryCmdLines, port \in Ports}

\* ParamArgData: FTPBackup has no remoteDirectory
ArgData(p, local, remote) ==
    IF p = "FTPBackup" THEN [localDirectory |-> local]
    ELSE [localDirectory |-> local, remoteDirectory |-> remote]

CopyInit ==
    /\ prog \in Programs
    /\ argv \in CopyCmdLines
    /\ (ReadsPort(prog, argv) \/ argv.port = PortNumber)
    /\ argData = ArgData(prog, <<>>, <<>>)
    /\ pc = "start"
    /\ run = 1
    /\ localFS \in LocalTrees
    /\ remoteFS \in RemoteTrees
    /\ rootExists = TRUE
    /\ (ReadsTrees(prog, argv) \/ NoTrees)
    /\ connected = FALSE
    /\ localFiles = <<>>
    /\ remoteFiles = <<>>
    /\ newFiles = <<>>
    /\ newFilesTransfered = <<>>
    /\ idx = 1
    /\ remoteFileModifiedTimes = EmptyMap
    /\ oracleBuilt = EmptyMap
    /\ log = <<>>
    /\ prevClean = FALSE
    /\ exitStatus = Running
    /\ mapIn = <<>>
    /\ mapOut = Thrown
    /\ remoteListed = EmptyMap
    /\ fileList = <<>>
    /\ filesDone = <<>>
    /\ sftpOpen = FALSE
    /\ report = <<>>
    /\ NoMail

\* procCmdLine of the four programs: the directories are taken as given
CopyCmdLine ==
    /\ pc = "start"
    /\ IF ParseCmdLine(prog, argv) = "accepted"
       THEN /\ argData' = ArgData(prog, OptionValue(argv, "local"),
                                   OptionValue(argv, "remote"))
            /\ pc' = "connect"
            /\ UNCHANGED exitStatus
       ELSE /\ CmdLineExit(ParseCmdLine(prog, argv))
            /\ UNCHANGED argData
    /\ UNCHANGED <<argv, localFS, remoteFS, connected, log, copyVars, syncVars,
                   mailVars>>

\* FTPBackup, FTPRestore: ftpServer.connect() and the test of its reply
FtpConnect ==
    /\ pc = "connect"
    /\ ~IsSSH(prog)
    /\ \E reply \in Replies(LoggedIn) :
          /\ log' = Append(log, Op("connect", 0, <<>>, reply = LoggedIn))
          /\ IF ConnectRefused(reply)
             THEN Fatal /\ UNCHANGED connected
             ELSE /\ connected' = TRUE
                  /\ pc' = "list"
                  /\ UNCHANGED exitStatus
    /\ UNCHANGED <<argv, argData, localFS, remoteFS, copyVars, syncVars, mailVars>>

\* the calls of the SSH start-up, up to and including the one that fails
SshSteps == <<"connect", "verifyKnownServer", "userAuthorize">>

SshLog(failing) ==
    [i \in 1..(IF failing = 0 THEN Len(SshSteps) ELSE failing) |->
        Op(SshSteps[i], 0, <<>>, i # failing)]

\* SCPBackup, SFTPRestore: setPort(std::stoi(serverPort)), then connect,
\* verifyKnownServer, userAuthorize
SshConnect ==
    /\ pc = "connect"
    /\ IsSSH(prog)
    /\ IF PortOf[argv.port].ok
       THEN \E failing \in 0..Len(SshSteps) :
               /\ log' = log \o SshLog(failing)
               /\ connected' = (failing # 1)
               /\ IF failing # 0
                  THEN Fatal
                  ELSE /\ pc' = IF prog = "SFTPRestore" THEN "open" ELSE "copy"
                       /\ UNCHANGED exitStatus
       ELSE /\ Fatal
            /\ UNCHANGED <<log, connected>>
    /\ UNCHANGED <<argv, argData, localFS, remoteFS, copyVars, syncVars, mailVars>>

\* variant of the catch of performRestore that only rethrows
SftpCatchNoClose ==
    /\ UNCHANGED sftpOpen
    /\ Fatal

\* the catch of performRestore: sftpServer.close(), then the rethrow
SftpCatch ==
    /\ sftpOpen' = FALSE
    /\ Fatal

\* the catch of main in the other programs
CopyCatch ==
    /\ UNCHANGED sftpOpen
    /\ Fatal

Catch(p) == IF p = "SFTPRestore" THEN SftpCatch ELSE CopyCatch

CloseLog(p) == IF p = "SFTPRestore" THEN << Op("close", 0, <<>>, TRUE) >> ELSE <<>>

\* SFTPRestore: sftpServer.open()
SftpOpen ==
    /\ pc = "open"
    /\ \E opened \in BOOLEAN :
          /\ log' = Append(log, Op("open", 0, <<>>, opened)) \o
                        (IF opened THEN <<>> ELSE CloseLog(prog))
          /\ IF opened
             THEN /\ sftpOpen' = TRUE
                  /\ pc' = "list"
                  /\ UNCHANGED exitStatus
             ELSE SftpCatch
    /\ UNCHANGED <<argv, argData, localFS, remoteFS, connected, fileList, filesDone,
                   prog, report, syncVars, mailVars>>

\* the listing of the source tree: the local one for a backup, the server one
\* for a restore
SourceList(p) ==
    IF IsBackup(p)
    THEN Listing(localFS, CopyRoots.localDirectory, <<>>)
    ELSE Listing(remoteFS, CopyRoots.remoteDirectory, <<"/">>)

\* the listing main calls
ListCall(p) == IF IsBackup(p) THEN "listLocalRecursive" ELSE "listRemoteRecursive"

\* listLocalRecursive (FTPBackup), listRemoteRecursive (FTPRestore, SFTPRestore)
CopyList ==
    /\ pc = "list"
    /\ \E listed \in BOOLEAN :
          /\ log' = Append(log, Op(ListCall(prog), 0, <<>>, listed)) \o
                        (IF listed THEN <<>> ELSE CloseLog(prog))
          /\ IF listed
             THEN /\ fileList' = SourceList(prog)
                  /\ pc' = "copy"
                  /\ UNCHANGED <<exitStatus, sftpOpen>>
             ELSE Catch(prog) /\ UNCHANGED fileList
    /\ UNCHANGED <<argv, argData, localFS, remoteFS, connected, filesDone, prog,
                   report, syncVars, mailVars>>

\* the local tree after the server entries in done are fetched
Fetched(fs, arg, done) ==
    LET targets == {remoteFileToLocal(arg, r).val : r \in done}
        source(p) == CHOOSE r \in done : remoteFileToLocal(arg, r).val = p
    IN  [p \in DOMAIN fs \cup targets |->
            IF p \in targets THEN remoteFS[source(p)] ELSE fs[p]]

\* getFiles: the local paths of the files it fetched, in order
Restored(arg, files, done) ==
    LET kept == SelectSeq(files, LAMBDA file : file \in done)
    IN  [i \in 1..Len(kept) |-> remoteFileToLocal(arg, kept[i]).val]

\* one put or get for each file of the list
CopyLog(p, files, done) ==
    [i \in 1..Len(files) |->
        Op(IF IsBackup(p) THEN "put" ELSE "get", 0, files[i], files[i] \in done)]

\* variant that hands over only the files the other side does not hold
ToCopyNew(p) ==
    SelectSeq(IF p = "SCPBackup" THEN SourceList(p) ELSE fileList,
              LAMBDA f : IF IsBackup(p)
                         THEN localFileToRemote(CopyRoots, f).val \notin DOMAIN remoteFS
                         ELSE remoteFileToLocal(CopyRoots, f).val \notin DOMAIN localFS)

\* the files handed to putFiles or getFiles. SCPBackup hands putFiles the
\* FileMapper and no list: the library lists the local directory itself.
ToCopy(p) == IF p = "SCPBackup" THEN SourceList(p) ELSE fileList

\* putFiles or getFiles is called: SCPBackup always, the others when the list
\* is not empty
CopyCalled(p) == p = "SCPBackup" \/ fileList # <<>>

\* putFiles (backup) or getFiles (restore)
CopyFiles ==
    /\ pc = "copy"
    /\ IF CopyCalled(prog)
       THEN \E thrown \in BOOLEAN :
              IF thrown
              THEN /\ Catch(prog)
                   /\ log' = Append(log, Op("copy", 0, <<>>, FALSE)) \o CloseLog(prog)
                   /\ UNCHANGED <<filesDone, localFS, remoteFS>>
              ELSE \E done \in SUBSET Range(ToCopy(prog)) :
                      /\ log' = log \o CopyLog(prog, ToCopy(prog), done)
                      /\ pc' = "report"
                      /\ UNCHANGED <<exitStatus, sftpOpen>>
                      /\ IF IsBackup(prog)
                         THEN /\ filesDone' = Transferred(CopyRoots, ToCopy(prog), done)
                              /\ remoteFS' = Stored(remoteFS, CopyRoots, done)
                              /\ UNCHANGED localFS
                         ELSE /\ filesDone' = Restored(CopyRoots, ToCopy(prog), done)
                              /\ localFS' = Fetched(localFS, CopyRoots, done)
                              /\ UNCHANGED remoteFS
       ELSE /\ pc' = "report"
            /\ UNCHANGED <<filesDone, localFS, remoteFS, log, exitStatus, sftpOpen>>
    /\ UNCHANGED <<argv, argData, connected, fileList, prog, report, syncVars, mailVars>>

\* the lines of the report
SuccessLine(file) == [ok |-> TRUE, path |-> file]
FailedLine == [ok |-> FALSE, path |-> <<>>]

\* variant of the report that prints nothing when no file was transferred
ReportSilent(done) == [i \in 1..Len(done) |-> SuccessLine(done[i])]

\* "Sucessfully backed up [file]" / "Successfully restored [file]" for each
\* transferred file, or "Backup failed." / "Restore failed."
Report(done) ==
    IF done # <<>>
    THEN [i \in 1..Len(done) |-> SuccessLine(done[i])]
    ELSE << FailedLine >>

\* signal success or failure
CopyReport ==
    /\ pc = "report"
    /\ report' = Report(filesDone)
    /\ pc' = IF prog = "SFTPRestore" THEN "close" ELSE "disconnect"
    /\ UNCHANGED <<argv, argData, localFS, remoteFS, connected, log, exitStatus,
                   fileList, filesDone, prog, sftpOpen, syncVars, mailVars>>

\* SFTPRestore: sftpServer.close() at the end of performRestore
SftpClose ==
    /\ pc = "close"
    /\ sftpOpen' = FALSE
    /\ log' = log \o CloseLog(prog)
    /\ pc' = "disconnect"
    /\ UNCHANGED <<argv, argData, localFS, remoteFS, connected, exitStatus,
                   fileList, filesDone, prog, report, syncVars, mailVars>>

\* variant of the exit status that follows the report
CopyStatusByReport(lines) ==
    IF FailedLine \in Range(lines) THEN ExitFailure ELSE ExitSuccess

\* the status main gives to exit after the report, whatever was reported
CopyStatus(lines) == ExitSuccess

\* disconnect, then exit(EXIT_SUCCESS)
CopyDisconnect ==
    /\ pc = "disconnect"
    /\ connected' = FALSE
    /\ log' = Append(log, Op("disconnect", 0, <<>>, TRUE))
    /\ pc' = "done"
    /\ exitStatus' = Exited(CopyStatus(report))
    /\ UNCHANGED <<argv, argData, localFS, remoteFS, copyVars, syncVars, mailVars>>

CopyNext ==
    \/ CopyCmdLine
    \/ FtpConnect
    \/ SshConnect
    \/ SftpOpen
    \/ CopyList
    \/ CopyFiles
    \/ CopyReport
    \/ SftpClose
    \/ CopyDisconnect

SpecCopy == CopyInit /\ [][CopyNext]_vars

\* the process is scheduled until it exits
FairSpecCopy == SpecCopy /\ WF_vars(CopyNext)

\* --------------------------------------------------------------------------
\* WaitForMailBoxEvent
\* --------------------------------------------------------------------------

\* the largest EXISTS count a response carries
MaxCount == 2

\* the most commands sent to the server in one run
MaxCalls == 5

\* the least number an int cannot hold, 2^31, as the server writes it
IntOverflowText == <<"2", "1", "4", "7", "4", "8", "3", "6", "4", "8">>

\* the texts of the counts the server sends
CountTexts == {Decimal(n) : n \in 0..MaxCount} \cup {IntOverflowText}

\* the response maps the server can cause: EXISTS with a count or not, RECENT
\* or not
ResponseMaps ==
    UNION {[K -> CountTexts] : K \in SUBSET {"EXISTS", "RECENT"}}

\* the command lines of WaitForMailBoxEvent
WaitCmdLines ==
    {line \in [given : SUBSET {"help", "config", "wait", "poll", OtherOption},
               configExists : BOOLEAN,
               inConfig : SUBSET {"help", "wait", "poll", OtherOption}] :
        WellFormed(line)}

\* what the log keeps of a command: its name, the text of the EXISTS field of
\* its response (empty when it has none), and whether it returned
Sent(command, response, ok) ==
    Op(command, 0,
       IF ok /\ "EXISTS" \in DOMAIN response THEN response["EXISTS"] ELSE <<>>, ok)

\* the variables the mail programs leave alone
ftpVars == <<argv, argData, localFS, remoteFS, fileList, filesDone, sftpOpen,
             report, syncVars>>

WaitInit ==
    /\ prog = "WaitForMailBoxEvent"
    /\ waitArgs = [bPolls |-> FALSE, bWaitForNewMail |-> FALSE]
    /\ exists = 0
    /\ newExists = 0
    /\ responseMap = EmptyMap
    /\ cycles = 0
    /\ newMail = FALSE
    /\ bOnlyUpdates = FALSE
    /\ folder = {}
    /\ mailbox = {}
    /\ searchUID = 0
    /\ indexes = <<>>
    /\ fetched = <<>>
    /\ mailBoxList = <<>>
    /\ box = 1
    /\ mailMessages = EmptyMap
    /\ argv \in WaitCmdLines
    /\ argData = [localDirectory |-> <<>>, remoteDirectory |-> <<>>]
    /\ pc = "start"
    /\ run = 1
    /\ localFS = EmptyMap
    /\ remoteFS = EmptyMap
    /\ rootExists = TRUE
    /\ connected = FALSE
    /\ localFiles = <<>>
    /\ remoteFiles = <<>>
    /\ newFiles = <<>>
    /\ newFilesTransfered = <<>>
    /\ idx = 1
    /\ remoteFileModifiedTimes = EmptyMap
    /\ oracleBuilt = EmptyMap
    /\ log = <<>>
    /\ prevClean = FALSE
    /\ exitStatus = Running
    /\ mapIn = <<>>
    /\ mapOut = Thrown
    /\ remoteListed = EmptyMap
    /\ fileList = <<>>
    /\ filesDone = <<>>
    /\ sftpOpen = FALSE
    /\ report = <<>>

\* procCmdLine: bPolls and bWaitForNewMail are set after po::notify
WaitCmdLine ==
    /\ pc = "start"
    /\ IF ParseCmdLine(prog, argv) = "accepted"
       THEN /\ waitArgs' = [bPolls |-> "poll" \in VmOptions(argv),
                            bWaitForNewMail |-> "wait" \in VmOptions(argv)]
            /\ pc' = "connect"
            /\ UNCHANGED exitStatus
       ELSE /\ CmdLineExit(ParseCmdLine(prog, argv))
            /\ UNCHANGED waitArgs
    /\ UNCHANGED <<prog, connected, log, ftpVars, exists, newExists, responseMap,
                   cycles, newMail, archiveVars>>

\* imap.connect()
WaitConnect ==
    /\ pc = "connect"
    /\ \E ok \in BOOLEAN :
          /\ log' = Append(log, Sent("connect", EmptyMap, ok))
          /\ connected' = ok
          /\ IF ok THEN pc' = "select" /\ UNCHANGED exitStatus ELSE Fatal
    /\ UNCHANGED <<prog, ftpVars, mailVars>>

\* the count of a response map that has an EXISTS field, as exists and
\* newExists take it: the unsigned long long of strtoull, converted to int
ExistsOf(response) == NarrowToInt(Strtoull(response["EXISTS"]))

\* SELECT, and the count it returns when it returns one
WaitSelect ==
    /\ pc = "select"
    /\ \E ok \in BOOLEAN, response \in ResponseMaps :
          /\ (~ok => response = EmptyMap)
          /\ log' = Append(log, Sent("SELECT", response, ok))
          /\ IF ok
             THEN /\ responseMap' = response
                  /\ exists' = IF "EXISTS" \in DOMAIN response
                               THEN ExistsOf(response) ELSE exists
                  /\ pc' = "wait"
                  /\ UNCHANGED exitStatus
             ELSE Fatal /\ UNCHANGED <<responseMap, exists>>
    /\ UNCHANGED <<prog, connected, ftpVars, waitArgs, newExists, cycles, newMail,
                   archiveVars>>

\* the top of the do-while body: IDLE, or the start of the polling loop
WaitCycle ==
    /\ pc = "wait"
    /\ Len(log) < MaxCalls
    /\ cycles' = cycles + 1
    /\ IF waitArgs.bPolls
       THEN /\ pc' = "poll"
            /\ UNCHANGED <<log, responseMap, exitStatus>>
       ELSE \E ok \in BOOLEAN, response \in ResponseMaps :
               /\ (~ok => response = EmptyMap)
               /\ log' = Append(log, Sent("IDLE", response, ok))
               /\ IF ok
                  THEN /\ responseMap' = response
                       /\ pc' = "check"
                       /\ UNCHANGED exitStatus
                  ELSE Fatal /\ UNCHANGED responseMap
    /\ UNCHANGED <<prog, connected, ftpVars, waitArgs, exists, newExists, newMail,
                   archiveVars>>

\* one NOOP of the polling loop; an empty response map is slept on
WaitPoll ==
    /\ pc = "poll"
    /\ Len(log) < MaxCalls
    /\ \E ok \in BOOLEAN, response \in ResponseMaps :
          /\ (~ok => response = EmptyMap)
          /\ log' = Append(log, Sent("NOOP", response, ok))
          /\ IF ok
             THEN /\ responseMap' = response
                  /\ pc' = IF Cardinality(DOMAIN response) >= 1 THEN "check" ELSE "poll"
                  /\ UNCHANGED exitStatus
             ELSE Fatal /\ UNCHANGED responseMap
    /\ UNCHANGED <<prog, connected, ftpVars, waitArgs, exists, newExists, cycles,
                   newMail, archiveVars>>

\* variant of the test that takes an unchanged count for new mail
IsNewMailOrSame(newCount, count) == newCount >= count

\* the test of the counts
IsNewMail(newCount, count) == newCount > count

\* the test of the EXISTS field, and the while condition
WaitCheck ==
    /\ pc = "check"
    /\ IF "EXISTS" \in DOMAIN responseMap
       THEN /\ newExists' = ExistsOf(responseMap)
            /\ IF IsNewMail(newExists', exists)
               THEN /\ newMail' = TRUE
                    /\ pc' = "disconnect"
                    /\ UNCHANGED exists
               ELSE /\ exists' = newExists'
                    /\ pc' = IF waitArgs.bWaitForNewMail THEN "wait" ELSE "disconnect"
                    /\ UNCHANGED newMail
       ELSE /\ pc' = IF waitArgs.bWaitForNewMail THEN "wait" ELSE "disconnect"
            /\ UNCHANGED <<exists, newExists, newMail>>
    /\ UNCHANGED <<prog, connected, log, exitStatus, ftpVars, waitArgs, responseMap,
                   cycles, archiveVars>>

\* imap.disconnect(), then exit(EXIT_SUCCESS)
WaitDisconnect ==
    /\ pc = "disconnect"
    /\ connected' = FALSE
    /\ log' = Append(log, Sent("disconnect", EmptyMap, TRUE))
    /\ pc' = "done"
    /\ exitStatus' = Exited(ExitSuccess)
    /\ UNCHANGED <<prog, ftpVars, mailVars>>

WaitNext ==
    \/ WaitCmdLine
    \/ WaitConnect
    \/ WaitSelect
    \/ WaitCycle
    \/ WaitPoll
    \/ WaitCheck
    \/ WaitDisconnect

SpecWait == WaitInit /\ [][WaitNext]_vars

\* --------------------------------------------------------------------------
\* ArchiveMailBox
\* --------------------------------------------------------------------------

\* the largest UID of a message
MaxUID == 2

\* the most entries a destination folder holds when the program starts
MaxEntries == 1

UIDs == 1..MaxUID

\* the mailboxes of the server that can be selected
ServerBoxes == {<<"a">>, <<"b">>}

\* the answer of the server to LIST "" *, as parsedResponse->mailBoxList
\* holds it: a name can come with a leading blank, and a mailbox can be
\* \Noselect
ListedBoxes ==
    << [mailBoxName |-> <<"a">>, attributes |-> {"\\HasNoChildren"}],
       [mailBoxName |-> <<" ", "b">>, attributes |-> {"\\HasNoChildren"}],
       [mailBoxName |-> <<"n">>, attributes |-> {"\\Noselect"}] >>

\* the texts of --mailbox
MailBoxArgs ==
    {<<"a">>, <<"a", ",", "b">>, <<" ", "a", " ">>, <<"\"", "a", "\"">>,
     <<"a", ",", ",", "b">>, <<" ">>, <<>>}

\* the texts of --destination
DestinationArgs == {<<>>, <<"d">>}

\* ".eml"
kEMLFileExt == ".eml"

\* the name fetchEmailAndArchive gives the file of a message: "(UID) subject"
\* and the extension
EmlName(uid) == <<"(">> \o Decimal(uid) \o <<")", " ", "s", kEMLFileExt>>

\* a file of the folder that is no archived message
OtherName == <<"n", ".txt">>

FolderNames == {EmlName(u) : u \in UIDs} \cup {OtherName}

\* what the path of a destination folder can be: nothing, a regular file, or
\* a directory whose entries are regular files and directories
Folders ==
    {[kind |-> "absent", entries |-> EmptyMap], [kind |-> "file", entries |-> EmptyMap]}
    \cup {[kind |-> "directory", entries |-> e] :
            e \in UNION {[N -> {"file", "directory"}] :
                            N \in {M \in SUBSET FolderNames : Cardinality(M) <= MaxEntries}}}

\* CPath::join
Join(path, name) == IF path = <<>> THEN name ELSE path \o <<"/">> \o name

\* CPath(mailFile).extension().compare(kEMLFileExt) == 0
IsEml(name) == name # <<>> /\ name[Len(name)] = kEMLFileExt

\* CIMAPParse::stringBetween: the text between the first occurrence of first
\* and the next occurrence of last
StringBetween(s, first, last) ==
    LET starts == {i \in 1..Len(s) : s[i] = first}
    IN  IF starts = {} THEN <<>>
        ELSE LET from == CHOOSE i \in starts : \A k \in starts : i <= k
                 ends == {i \in (from + 1)..Len(s) : s[i] = last}
             IN  IF ends = {} THEN <<>>
                 ELSE SubSeq(s, from + 1, (CHOOSE i \in ends : \A k \in ends : i <= k) - 1)

\* the UID in the path of a file
NameUID(name) == Strtoull(StringBetween(name, "(", ")"))

\* a set of numbers as a sequence, in ascending order
RECURSIVE Ascending(_)
Ascending(set) ==
    IF set = {} THEN <<>>
    ELSE LET least == CHOOSE u \in set : \A v \in set : u <= v
         IN  << least >> \o Ascending(set \ {least})

\* CFile::directoryContentsList: the paths of the entries of the directory
DirectoryContentsList(path, dir) ==
    LET names == DOMAIN dir.entries
        emls == Ascending({u \in UIDs : EmlName(u) \in names})
    IN  (IF OtherName \in names THEN << Join(path, OtherName) >> ELSE <<>>) \o
        [i \in 1..Len(emls) |-> Join(path, EmlName(emls[i]))]

\* CFile::isFile of a path of the listing
IsFile(path, dir, file) ==
    \E name \in DOMAIN dir.entries :
        Join(path, name) = file /\ dir.entries[name] = "file"

\* the loop of getLowerSearchLimit over mailMessages, from entry i on
RECURSIVE Highest(_, _, _, _, _)
Highest(path, dir, files, i, highestUID) ==
    IF i > Len(files) THEN highestUID
    ELSE IF /\ IsFile(path, dir, files[i])
            /\ IsEml(files[i])
            /\ Less(highestUID, NameUID(files[i]))
         THEN Highest(path, dir, files, i + 1, NameUID(files[i]))
         ELSE Highest(path, dir, files, i + 1, highestUID)

\* getLowerSearchLimit: highestUID starts at 1; 0 when the path is no directory
getLowerSearchLimit(path, dir) ==
    IF dir.kind = "directory"
    THEN Highest(path, dir, DirectoryContentsList(path, dir), 1, ULLong(1))
    ELSE ULLongZero

\* the answer of the server to UID SEARCH UID from:* : the UIDs from from on,
\* and the highest UID of the mailbox when from is above it
SearchResult(messages, from) ==
    LET top == CHOOSE u \in messages : \A v \in messages : v <= u
    IN  IF messages = {} THEN <<>>
        ELSE Ascending({u \in messages : ~Less(ULLong(u), from)}
                       \cup (IF Less(ULLong(top), from) THEN {top} ELSE {}))

\* std::getline(mailBoxStream, mailBox, ','): the texts between the commas;
\* no text follows the last comma when nothing is left
RECURSIVE SplitFrom(_, _, _, _)
SplitFrom(text, i, token, out) ==
    IF i > Len(text) THEN (IF token = <<>> THEN out ELSE Append(out, token))
    ELSE IF text[i] = "," THEN SplitFrom(text, i + 1, <<>>, Append(out, token))
    ELSE SplitFrom(text, i + 1, Append(token, text[i]), out)

Split(text) == SplitFrom(text, 1, <<>>, <<>>)

\* mailBox.substr(mailBox.find_first_not_of(' ')), which throws
\* std::out_of_range when the text holds no other character, then
\* mailBox.substr(0, mailBox.find_last_not_of(' ') + 1)
Trimmed(text) ==
    LET others == {i \in 1..Len(text) : text[i] # " "}
    IN  IF others = {} THEN Thrown
        ELSE Value(SubSeq(text, CHOOSE i \in others : \A k \in others : i <= k,
                                CHOOSE i \in others : \A k \in others : k <= i))

\* the else branch of createMailBoxList: the names of --mailbox
NamedBoxes(text) ==
    LET tokens == Split(text)
    IN  IF \E i \in 1..Len(tokens) : ~Trimmed(tokens[i]).ok THEN Thrown
        ELSE Value([i \in 1..Len(tokens) |-> Trimmed(tokens[i]).val])

\* the name of a listed mailbox without its leading blank
Unblanked(name) == IF name[1] = " " THEN SubSeq(name, 2, Len(name)) ELSE name

\* the --all branch of createMailBoxList: the listed mailboxes that are not
\* \Noselect
SelectableBoxes(list) ==
    LET kept == SelectSeq(list, LAMBDA entry : "\\Noselect" \notin entry.attributes)
    IN  [i \in 1..Len(kept) |-> Unblanked(kept[i].mailBoxName)]

\* the name of a mailbox cleared of its quotes, for the folder name
Unquoted(name) ==
    LET tail == IF name[1] = "\"" THEN SubSeq(name, 2, Len(name)) ELSE name
    IN  IF tail[Len(tail)] = "\"" THEN SubSeq(tail, 1, Len(tail) - 1) ELSE tail

\* the command lines of ArchiveMailBox; the texts of --mailbox and
\* --destination are as written in the place they are taken from, argv or the
\* config file
ArchiveCmdLines ==
    {line \in [given : SUBSET {"help", "config", "mailbox", "destination", "updates",
                               "all", OtherOption},
               configExists : BOOLEAN,
               inConfig : SUBSET {"help", "mailbox", "destination", "updates", "all",
                                  OtherOption},
               mailbox : MailBoxArgs,
               destination : DestinationArgs] :
        /\ WellFormed(line)
        /\ line.mailbox # <<>> => "mailbox" \in line.given \cup line.inConfig
        /\ line.destination # <<>> => "destination" \in line.given \cup line.inConfig}

\* the mailboxes a run goes through, when its command line names them
Visited(line) ==
    IF ~FromArgv("ArchiveMailBox", line) THEN {}
    ELSE IF "all" \in line.given THEN Range(SelectableBoxes(ListedBoxes))
    ELSE IF NamedBoxes(line.mailbox).ok
         THEN {Unquoted(name) : name \in Range(NamedBoxes(line.mailbox).val)}
         ELSE {}

\* the variables ArchiveMailBox leaves alone
archiveRest == <<argv, localFS, remoteFS, fileList, filesDone, sftpOpen, report,
                 run, rootExists, localFiles, remoteFiles, newFiles,
                 newFilesTransfered, remoteFileModifiedTimes, oracleBuilt,
                 prevClean, mapVars, remoteListed, waitVars>>

\* the folders and the messages of the mailboxes a run does not go through
\* are not looked at: its initial states are not told apart by them, nor by
\* the text of --mailbox when --all is given; a run that takes options from
\* the config file starts with no folder and no message
ArchiveInit ==
    /\ prog = "ArchiveMailBox"
    /\ argv \in ArchiveCmdLines
    /\ ("all" \in VmOptions(argv) => argv.mailbox \in {<<>>, <<"a">>})
    /\ folder \in [ServerBoxes ->
                      {dir \in Folders : Visited(argv) # {} \/ dir.kind = "absent"}]
    /\ mailbox \in [ServerBoxes ->
                       {uids \in SUBSET UIDs : Visited(argv) # {} \/ uids = {}}]
    /\ \A name \in ServerBoxes \ Visited(argv) :
          folder[name].kind = "absent" /\ mailbox[name] = {}
    /\ argData = [mailBoxName |-> <<>>, destinationFolder |-> <<>>,
                  bAllMailBoxes |-> FALSE]
    /\ bOnlyUpdates = FALSE
    /\ mailBoxList = <<>>
    /\ box = 1
    /\ mailMessages = [name \in ServerBoxes |-> <<>>]
    /\ searchUID = ULLongZero
    /\ indexes = <<>>
    /\ fetched = <<>>
    /\ waitArgs = [bPolls |-> FALSE, bWaitForNewMail |-> FALSE]
    /\ exists = 0
    /\ newExists = 0
    /\ responseMap = EmptyMap
    /\ cycles = 0
    /\ newMail = FALSE
    /\ pc = "start"
    /\ run = 1
    /\ localFS = EmptyMap
    /\ remoteFS = EmptyMap
    /\ rootExists = TRUE
    /\ connected = FALSE
    /\ localFiles = <<>>
    /\ remoteFiles = <<>>
    /\ newFiles = <<>>
    /\ newFilesTransfered = <<>>
    /\ idx = 1
    /\ remoteFileModifiedTimes = EmptyMap
    /\ oracleBuilt = EmptyMap
    /\ log = <<>>
    /\ prevClean = FALSE
    /\ exitStatus = Running
    /\ mapIn = <<>>
    /\ mapOut = Thrown
    /\ remoteListed = EmptyMap
    /\ fileList = <<>>
    /\ filesDone = <<>>
    /\ sftpOpen = FALSE
    /\ report = <<>>

\* procCmdLine: bOnlyUpdates and bAllMailBoxes are set before po::notify
ArchiveCmdLine ==
    /\ pc = "start"
    /\ IF ParseCmdLine(prog, argv) = "accepted"
       THEN /\ argData' = [mailBoxName |-> OptionValue(argv, "mailbox"),
                           destinationFolder |-> OptionValue(argv, "destination"),
                           bAllMailBoxes |-> "all" \in VmOptions(argv)]
            /\ bOnlyUpdates' = ("updates" \in VmOptions(argv))
            /\ pc' = "connect"
            /\ UNCHANGED exitStatus
       ELSE /\ CmdLineExit(ParseCmdLine(prog, argv))
            /\ UNCHANGED <<argData, bOnlyUpdates>>
    /\ UNCHANGED <<prog, connected, log, idx, folder, mailbox, mailBoxList, box,
                   mailMessages, searchUID, indexes, fetched, archiveRest>>

\* imap.connect()
ArchiveConnect ==
    /\ pc = "connect"
    /\ \E ok \in BOOLEAN :
          /\ log' = Append(log, Op("connect", 0, <<>>, ok))
          /\ connected' = ok
          /\ IF ok THEN pc' = "list" /\ UNCHANGED exitStatus ELSE Fatal
    /\ UNCHANGED <<prog, argData, idx, archiveVars, archiveRest>>

\* the loop over mailBoxList goes to its entry at position next, or ends
ToBox(list, next) ==
    /\ box' = next
    /\ pc' = IF next <= Len(list) THEN "select" ELSE "disconnect"

\* createMailBoxList: LIST "" * with --all, the names of --mailbox without
ArchiveMailBoxList ==
    /\ pc = "list"
    /\ IF argData.bAllMailBoxes
       THEN \E ok \in BOOLEAN :
               /\ log' = Append(log, Op("LIST", 0, <<>>, ok))
               /\ IF ok
                  THEN /\ mailBoxList' = SelectableBoxes(ListedBoxes)
                       /\ ToBox(mailBoxList', 1)
                       /\ UNCHANGED exitStatus
                  ELSE Fatal /\ UNCHANGED <<mailBoxList, box>>
       ELSE /\ IF NamedBoxes(argData.mailBoxName).ok
               THEN /\ mailBoxList' = NamedBoxes(argData.mailBoxName).val
                    /\ ToBox(mailBoxList', 1)
                    /\ UNCHANGED exitStatus
               ELSE Fatal /\ UNCHANGED <<mailBoxList, box>>
            /\ UNCHANGED log
    /\ UNCHANGED <<prog, connected, argData, idx, bOnlyUpdates, folder, mailbox,
                   mailMessages, searchUID, indexes, fetched, archiveRest>>

\* the mailbox of this pass of the loop, and the path of its folder
MailBox == mailBoxList[box]
MailBoxPath == Join(argData.destinationFolder, Unquoted(MailBox))

\* the top of the loop body: searchUID = 0, then SELECT of the mailbox
ArchiveSelect ==
    /\ pc = "select"
    /\ searchUID' = ULLongZero
    /\ \E ok \in BOOLEAN :
          /\ log' = Append(log, Op("SELECT", 0, MailBox, ok))
          /\ IF ok THEN pc' = "folder" /\ UNCHANGED exitStatus ELSE Fatal
    /\ UNCHANGED <<prog, connected, argData, idx, bOnlyUpdates, folder, mailbox,
                   mailBoxList, box, mailMessages, indexes, fetched, archiveRest>>

\* CFile::createDirectory
Created(dir) == [dir EXCEPT !.kind = "directory"]

\* the destination folder of the mailbox is created when --destination is not
\* empty and nothing exists at its path
ArchiveFolder ==
    /\ pc = "folder"
    /\ folder' = IF /\ argData.destinationFolder # <<>>
                    /\ folder[Unquoted(MailBox)].kind = "absent"
                 THEN [folder EXCEPT ![Unquoted(MailBox)] = Created(@)]
                 ELSE folder
    /\ pc' = "limit"
    /\ UNCHANGED <<prog, connected, log, exitStatus, argData, idx, bOnlyUpdates,
                   mailbox, mailBoxList, box, mailMessages, searchUID, indexes,
                   fetched, archiveRest>>

\* with --updates: searchUID = getLowerSearchLimit(mailBoxPath)
ArchiveLimit ==
    /\ pc = "limit"
    /\ IF bOnlyUpdates
       THEN /\ mailMessages' =
                  [mailMessages EXCEPT ![Unquoted(MailBox)] =
                      IF folder[Unquoted(MailBox)].kind = "directory"
                      THEN DirectoryContentsList(MailBoxPath, folder[Unquoted(MailBox)])
                      ELSE <<>>]
            /\ searchUID' = getLowerSearchLimit(MailBoxPath, folder[Unquoted(MailBox)])
       ELSE UNCHANGED <<mailMessages, searchUID>>
    /\ pc' = "search"
    /\ UNCHANGED <<prog, connected, log, exitStatus, argData, idx, bOnlyUpdates,
                   folder, mailbox, mailBoxList, box, indexes, fetched, archiveRest>>

\* the first UID of the search command
SearchFrom(uid) == IF uid # ULLongZero THEN uid ELSE ULLong(1)

\* UID SEARCH UID n:*
ArchiveSearch ==
    /\ pc = "search"
    /\ \E ok \in BOOLEAN :
          /\ log' = Append(log, Op("UID SEARCH", 0, ULLongText(SearchFrom(searchUID)), ok))
          /\ IF ok
             THEN /\ indexes' = SearchResult(mailbox[Unquoted(MailBox)], SearchFrom(searchUID))
                  /\ idx' = 1
                  /\ pc' = "fetch"
                  /\ UNCHANGED exitStatus
             ELSE Fatal /\ UNCHANGED <<indexes, idx>>
    /\ UNCHANGED <<prog, connected, argData, bOnlyUpdates, folder, mailbox,
                   mailBoxList, box, mailMessages, searchUID, fetched, archiveRest>>

\* fetchEmailAndArchive creates the file of the message when the message has
\* a body, nothing exists under its name and the stream opens
CanArchive(dir, index) ==
    dir.kind = "directory" /\ EmlName(index) \notin DOMAIN dir.entries

\* the folder with the file of the message
Archived(dir, index) ==
    [dir EXCEPT !.entries =
        [name \in DOMAIN @ \cup {EmlName(index)} |->
            IF name = EmlName(index) THEN "file" ELSE @[name]]]

\* one pass of the loop over the indexes of the search
ArchiveFetch ==
    /\ pc = "fetch"
    /\ idx <= Len(indexes)
    /\ LET index == indexes[idx]
           name == Unquoted(MailBox)
       IN  IF ULLong(index) # searchUID
           THEN \E ok \in BOOLEAN, written \in BOOLEAN :
                   /\ written => (ok /\ CanArchive(folder[name], index))
                   /\ log' = Append(log, Op("UID FETCH", 0, Decimal(index), ok))
                   /\ fetched' = Append(fetched, [box |-> name, uid |-> index])
                   /\ folder' = IF written
                                THEN [folder EXCEPT ![name] = Archived(@, index)]
                                ELSE folder
                   /\ IF ok
                      THEN idx' = idx + 1 /\ UNCHANGED <<pc, exitStatus>>
                      ELSE Fatal /\ UNCHANGED idx
           ELSE /\ idx' = idx + 1
                /\ UNCHANGED <<log, fetched, folder, pc, exitStatus>>
    /\ UNCHANGED <<prog, connected, argData, bOnlyUpdates, mailbox, mailBoxList, box,
                   mailMessages, searchUID, indexes, archiveRest>>

\* the loop over the indexes ends: on to the next mailbox
ArchiveFetchEnd ==
    /\ pc = "fetch"
    /\ idx > Len(indexes)
    /\ ToBox(mailBoxList, box + 1)
    /\ UNCHANGED <<prog, connected, log, exitStatus, argData, idx, bOnlyUpdates,
                   folder, mailbox, mailBoxList, mailMessages, searchUID, indexes,
                   fetched, archiveRest>>

\* imap.disconnect(), then exit(EXIT_SUCCESS)
ArchiveDisconnect ==
    /\ pc = "disconnect"
    /\ connected' = FALSE
    /\ log' = Append(log, Op("disconnect", 0, <<>>, TRUE))
    /\ pc' = "done"
    /\ exitStatus' = Exited(ExitSuccess)
    /\ UNCHANGED <<prog, argData, idx, archiveVars, archiveRest>>

ArchiveNext ==
    \/ ArchiveCmdLine
    \/ ArchiveConnect
    \/ ArchiveMailBoxList
    \/ ArchiveSelect
    \/ ArchiveFolder
    \/ ArchiveLimit
    \/ ArchiveSearch
    \/ ArchiveFetch
    \/ ArchiveFetchEnd
    \/ ArchiveDisconnect

SpecArchive == ArchiveInit /\ [][ArchiveNext]_vars

\* --------------------------------------------------------------------------
\* Properties
\* --------------------------------------------------------------------------

toRemote(p) == localFileToRemote(argData, p).val
toLocal(r) == remoteFileToLocal(argData, r).val

\* the remote counterparts of the local snapshot
Mirror == {toRemote(p) : p \in Range(localFiles)}

Issued(names, pass, path) ==
    \E i \in Ops(log, names) : log[i].pass = pass /\ log[i].path = path

Succeeded(names, pass, path) ==
    \E i \in Ops(log, names) : log[i].pass = pass /\ log[i].path = path /\ log[i].ok

Failed(names, pass, path) ==
    \E i \in Ops(log, names) : log[i].pass = pass /\ log[i].path = path /\ ~log[i].ok

Removals == {"deleteFile", "removeDirectory"}
Mutations == {"put", "deleteFile", "removeDirectory"}

\* C1 (mirror convergence): when a run is done and every put and every orphan
\* removal it issued succeeded (which is the case when every backend operation
\* succeeded), the paths on the server are exactly the remote counterparts of
\* the local snapshot.
C1_MirrorConvergence ==
    (pc = "done" /\ PutsOk(log) /\ RemovalsOk(log)) => DOMAIN remoteFS = Mirror

\* a run is done that pushed a new file and removed an orphan, all succeeding
C1_Witness ==
    /\ pc = "done"
    /\ run = 1
    /\ PutsOk(log) /\ RemovalsOk(log)
    /\ \E i \in Ops(log, {"put"}) : log[i].pass = 1
    /\ Ops(log, {"deleteFile"}) # {}
    /\ DOMAIN remoteFS = Mirror

\* files succeeded, with a time not older than the local file's
QueriesFresh ==
    \A p \in Range(localFiles) :
        isFile(p) =>
            /\ ~Failed({"getModifiedDateTime"}, 3, toRemote(p))
            /\ (toRemote(p) \in DOMAIN remoteFileModifiedTimes =>
                    remoteFileModifiedTimes[toRemote(p)] >= lastWriteTime(p))

\* for the remote counterpart of a local path.
C3_Pass2Soundness ==
    \A i \in Ops(log, Removals) :
        /\ toLocal(log[i].path) \notin Range(localFiles)
        /\ log[i].path \notin Mirror

\* an orphan was removed while the counterpart of a local file was listed too
C3_Witness ==
    /\ pc = "oracle"
    /\ Ops(log, Removals) # {}
    /\ \E r \in Range(remoteFiles) : r \in Mirror /\ r \in DOMAIN remoteFS

\* C4 (Pass-1 completeness): when Pass 1 has finished and Pass 2 has not
\* started, every local path has its counterpart in remoteFiles or its push
\* failed in Pass 1.
C4_Pass1Completeness ==
    (pc = "pass2" /\ idx = 1) =>
        \A p \in Range(localFiles) :
            toRemote(p) \in Range(remoteFiles) \/ Failed({"put"}, 1, p)

\* Pass 1 has finished with one push done and one push failed
C4_Witness ==
    /\ pc = "pass2" /\ idx = 1
    /\ \E p, q \in Range(localFiles) :
          /\ Succeeded({"put"}, 1, p) /\ toRemote(p) \in Range(remoteFiles)
          /\ Failed({"put"}, 1, q) /\ toRemote(q) \notin Range(remoteFiles)

\* the local files the loop of Pass 3 has gone through
Visited3 ==
    IF pc = "pass3" THEN {localFiles[i] : i \in 1..(idx - 1)}
    ELSE IF pc \in {"disconnect", "done"} THEN Range(localFiles)
    ELSE {}

\* the update rule of Pass 3 on the oracle as built
Stale(p) ==
    /\ isFile(p)
    /\ \/ toRemote(p) \notin DOMAIN oracleBuilt
       \/ lastWriteTime(p) > oracleBuilt[toRemote(p)]

\* C5 (Pass-3 monotonicity): a put is issued in Pass 3 for a local path exactly
\* when the path is a regular file and the oracle as built at the start of
\* Pass 3 has no entry for its counterpart or an older time than the local
\* modification time.
C5_Pass3Monotonicity ==
    \A p \in Range(localFiles) :
        Issued({"put"}, 3, p) <=> (p \in Visited3 /\ Stale(p))

\* Pass 3 is over: one file was updated for want of an oracle entry, another
\* with equal times was left alone
C5_Witness ==
    /\ pc = "disconnect"
    /\ \E p, q \in Range(localFiles) :
          /\ isFile(p) /\ toRemote(p) \notin DOMAIN oracleBuilt
          /\ Issued({"put"}, 3, p)
          /\ isFile(q) /\ toRemote(q) \in DOMAIN oracleBuilt
          /\ oracleBuilt[toRemote(q)] = lastWriteTime(q)
          /\ ~Issued({"put"}, 3, q)

\* C6 (mapping inverse): for a local path that begins with the local root,
\* remoteFileToLocal(localFileToRemote(p)) is p, whatever the remote root.
C6_MappingInverse ==
    (pc = "back" /\ IsPrefix(argData.localDirectory, mapIn)) => mapOut = Value(mapIn)

\* a path below a local root given without its trailing separator went there
\* and back
C6_Witness ==
    /\ pc = "back"
    /\ argv.local # argData.localDirectory
    /\ IsPrefix(argData.localDirectory, mapIn)
    /\ Len(mapIn) > Len(argData.localDirectory)
    /\ argData.remoteDirectory # <<>>
    /\ mapOut = Value(mapIn)

\* C7 (mapping error): a local path that does not begin with the local root,
\* and a remote path that does not begin with the remote root, are never
\* mapped: the mapping fails.
C7_MappingError ==
    /\ (pc = "remote" /\ ~IsPrefix(argData.localDirectory, mapIn)) => ~mapOut.ok
    /\ (pc = "local" /\ ~IsPrefix(argData.remoteDirectory, mapIn)) => ~mapOut.ok

\* every item of the passes was gone through
AllProcessed ==
    /\ \A p \in Range(newFiles) : Issued({"put"}, 1, p)
    /\ \A r \in Range(remoteFiles) :
          /\ Orphan(argData, localFiles, r) => Issued({"deleteFile"}, 2, r)
          /\ Issued({"getModifiedDateTime"}, 3, r)
    /\ \A p \in Range(localFiles) : Stale(p) => Issued({"put"}, 3, p)

\* C8 (per-item failures are not fatal): a run whose connect and listings
\* succeeded goes through every item of every pass and reaches Done with the
\* success status, whatever puts, removals and time queries fail.
C8_PerItemFailuresNotFatal ==
    (pc = "plan1") ~> (pc = "done" /\ AllProcessed /\ exitStatus = Exited(ExitSuccess))

\* a run is done in which a push, a removal, a time query and an update failed
C8_Witness ==
    /\ pc = "done"
    /\ AllProcessed
    /\ \E i \in Ops(log, {"put"}) : log[i].pass = 1 /\ ~log[i].ok
    /\ \E i \in Ops(log, {"put"}) : log[i].pass = 3 /\ ~log[i].ok
    /\ \E i \in Ops(log, {"removeDirectory"}) : ~log[i].ok
    /\ \E i \in Ops(log, {"getModifiedDateTime"}) : ~log[i].ok

\* connect was refused, or the remote root could not be created
StartupFailed(l) ==
    \E i \in Ops(l, {"connect", "makeRemotePath"}) : ~l[i].ok

\* C9 (fatal abort): once connect is refused or the remote root cannot be
\* created the run has failed, and no listing, put, removal or time query is
\* issued afterwards: the failed operation stays the last of the run.
C9_FatalAbort ==
    StartupFailed(log) =>
        /\ pc = "failed"
        /\ exitStatus = Exited(ExitFailure)
        /\ ~log[Len(log)].ok
        /\ Ops(log, Mutations \cup {"list", "getModifiedDateTime"}) = {}

\* the run failed because the remote root could not be created
C9_Witness ==
    /\ pc = "failed"
    /\ \E i \in Ops(log, {"makeRemotePath"}) : ~log[i].ok
    /\ \E i \in Ops(log, {"connect"}) : log[i].ok

\* a fatal error: connect, the remote root, the listings or a path mapping
FatalError(l) ==
    \E i \in Ops(l, {"connect", "makeRemotePath", "list", "map"}) : ~l[i].ok

\* procCmdLine rejected the command line, or answered it with the help text
Rejected == ParseCmdLine(prog, argv) = "error"
HelpAsked == ParseCmdLine(prog, argv) = "help"

\* C10 as stated (exit status): the process exits with a non-zero status
\* exactly when a fatal connect, listing or mapping error occurred.
C10_NonZeroOnlyOnFatalError ==
    exitStatus # Running =>
        (exitStatus = Exited(ExitFailure) <=> FatalError(log))

\* C10 as amended (exit status): the process exits with a non-zero status
\* exactly when its command line was rejected or a fatal connect, listing or
\* mapping error occurred, and with 0 otherwise: after the help text, and
\* after a run that reached disconnect whatever transfers, removals and
\* queries failed.
C10_ExitStatus ==
    /\ (exitStatus = Exited(ExitSuccess)) <=> (pc = "done" \/ (pc = "exited" /\ HelpAsked))
    /\ (exitStatus = Exited(ExitFailure)) <=> (pc = "failed" \/ (pc = "exited" /\ Rejected))
    /\ pc = "failed" => ~Rejected /\ ~HelpAsked
    /\ exitStatus # Running =>
          (exitStatus = Exited(ExitFailure) <=> (Rejected \/ FatalError(log)))

\* the process exited with 0 although every transfer it tried failed
C10_Witness ==
    /\ exitStatus = Exited(ExitSuccess)
    /\ Ops(log, {"put"}) # {}
    /\ \A i \in Ops(log, {"put"}) : ~log[i].ok

\* the remote files the loop of Pass 2 has gone through
Visited2 ==
    IF pc = "pass2" THEN {remoteFiles[i] : i \in 1..(idx - 1)}
    ELSE IF pc \in {"oracle", "pass3", "disconnect", "done"} THEN Range(remoteFiles)
    ELSE {}

\* deleteFile comes first for every orphan gone through, and removeDirectory
\* follows it exactly when it failed
RemovalOrder ==
    /\ \A r \in Visited2 :
          Orphan(argData, localFiles, r) => Issued({"deleteFile"}, 2, r)
    /\ \A i \in Ops(log, {"removeDirectory"}) :
          /\ i > 1
          /\ log[i - 1] = Op("deleteFile", 2, log[i].path, FALSE)
    /\ \A i \in Ops(log, {"deleteFile"}) :
          ~log[i].ok =>
              /\ i < Len(log)
              /\ log[i + 1].op = "removeDirectory"
              /\ log[i + 1].path = log[i].path

\* the orphans removed as a directory after deleteFile failed
RemovedAsDirectory ==
    {log[i].path : i \in {k \in Ops(log, {"removeDirectory"}) :
                              /\ log[k].ok
                              /\ Failed({"deleteFile"}, 2, log[k].path)}}

\* C11 as stated (orphan removal order): deleteFile first, removeDirectory
\* exactly after a failed deleteFile, and at the end of the run an orphan
\* removed as a directory is neither on the server nor in the remote snapshot.
C11_RemovedLeavesSnapshot ==
    /\ RemovalOrder
    /\ pc = "done" =>
          \A r \in RemovedAsDirectory :
              r \notin DOMAIN remoteFS /\ r \notin Range(remoteFiles)

\* every operation of the log succeeded
AllOk(l) == \A i \in 1..Len(l) : l[i].ok

\* the two paths of the trees, on each side
LocalA == argData.localDirectory \o SuffixOrder[1]
LocalB == argData.localDirectory \o SuffixOrder[2]
RemoteA == argData.remoteDirectory \o <<"/">> \o SuffixOrder[1]
RemoteB == argData.remoteDirectory \o <<"/">> \o SuffixOrder[2]

\* the local paths a put of the pass was issued for
PutIn(pass) == {log[i].path : i \in {k \in Ops(log, {"put"}) : log[k].pass = pass}}

AfterPass1 == pc \in {"pass2", "oracle", "pass3", "disconnect", "done"}

\* Scenario A: local = {a at t2, d/b}, both regular files, and the server
\* listed {a at t1} with t1 < t2
ScenarioA(t1, t2) ==
    /\ t1 < t2
    /\ DOMAIN localFS = {LocalA, LocalB}
    /\ localFS[LocalA] = t2
    /\ isFile(LocalB)
    /\ DOMAIN remoteListed = {RemoteA}
    /\ remoteListed[RemoteA] = t1

\* C12 (Scenario A): with local = {a at t2, d/b}, remote = {a at t1}, t1 < t2,
\* and every operation succeeding, Pass 1 pushes d/b and not a, Pass 2 removes
\* nothing, Pass 3 pushes a and nothing else, and the server ends with
\* {a at t2, d/b}.
C12_ScenarioA ==
    \A t1, t2 \in 1..MaxTime :
        (ScenarioA(t1, t2) /\ AfterPass1 /\ AllOk(log)) =>
            /\ PutIn(1) = {LocalB}
            /\ Ops(log, Removals) = {}
            /\ PutIn(3) \subseteq {LocalA}
            /\ pc \in {"disconnect", "done"} =>
                  /\ PutIn(3) = {LocalA}
                  /\ DOMAIN remoteFS = {RemoteA, RemoteB}
                  /\ remoteFS[RemoteA] = t2
                  /\ remoteFS[RemoteB] = localFS[LocalB]

\* a first run of Scenario A is done with every operation having succeeded
C12_Witness ==
    /\ pc = "done"
    /\ run = 1
    /\ AllOk(log)
    /\ \E t1, t2 \in 1..MaxTime : ScenarioA(t1, t2) /\ remoteFS[RemoteA] = t2
    /\ PutIn(1) = {LocalB}
    /\ PutIn(3) = {LocalA}

\* both listings were taken and both are empty
EmptyListings ==
    /\ \E i \in Ops(log, {"list"}) : log[i].ok
    /\ localFiles = <<>>
    /\ remoteListed = EmptyMap

\* no put, no removal, no time query, and no error
EmptyPlan ==
    /\ Ops(log, {"put", "deleteFile", "removeDirectory", "getModifiedDateTime"}) = {}
    /\ pc # "failed"
    /\ exitStatus \in {Running, Exited(ExitSuccess)}

\* C13 (Scenario C): when both the local and the remote listing are empty, no
\* put, no deleteFile/removeDirectory and no time query is issued in any pass,
\* no error is raised, and the run reaches Done with exit status 0.
C13_ScenarioC ==
    /\ [](EmptyListings => EmptyPlan)
    /\ EmptyListings ~> (EmptyListings /\ pc = "done" /\ exitStatus = Exited(ExitSuccess))

\* a run with both listings empty is done
C13_Witness ==
    /\ EmptyListings
    /\ pc = "done"
    /\ localFS = EmptyMap
    /\ remoteFS = EmptyMap
    /\ exitStatus = Exited(ExitSuccess)

\* C14 (no automatic retry): within one run, once a put for a local path has
\* failed, no further put for that path is issued during that run.
C14_NoRetry ==
    \A i, j \in Ops(log, {"put"}) :
        (i < j /\ log[i].path = log[j].path) => log[i].ok

\* the items whose operation failed, by pass: a push of Pass 1, a removal of
\* Pass 2 (both calls refused), an update of Pass 3
FailedItems ==
    {Line(log[i].pass, log[i].path, FALSE) :
        i \in {k \in Ops(log, {"put", "removeDirectory"}) : ~log[k].ok}}

\* C15 (failure accounting): in each of the three passes every item whose
\* operation failed is individually recorded as failed for that pass, so that
\* at Done every attempted item is reported as succeeded or as failed.
C15_FailureAccounting ==
    pc = "done" => FailedItems \subseteq Printed(log)

\* the report was printed
Reported == pc \in {"close", "disconnect", "done"}

\* the put or get calls of the log
Copies == Ops(log, {"put", "get"})

\* C16 (Backup and Restore success criterion): a backup or restore run that
\* hits no fatal error reports success if and only if the list of transferred
\* files is not empty, even when other items failed, and reports "Backup
\* failed." / "Restore failed." exactly when no file was transferred, which
\* includes an empty source tree.
C16_SuccessCriterion ==
    /\ ~Reported => report = <<>>
    /\ Reported =>
          /\ (filesDone # <<>>) <=> (\E i \in Copies : log[i].ok)
          /\ (\E i \in 1..Len(report) : report[i].ok) <=> (filesDone # <<>>)
          /\ (FailedLine \in Range(report)) <=> (filesDone = <<>>)
          /\ Copies = {} => report = << FailedLine >>
          /\ {report[i].path : i \in {k \in 1..Len(report) : report[k].ok}}
                = Range(filesDone)

\* a run is done that transferred one file and failed on another, and it
\* reported success
C16_Witness ==
    /\ pc = "done"
    /\ \E i, j \in Copies : log[i].ok /\ ~log[j].ok
    /\ report # <<>>
    /\ \A i \in 1..Len(report) : report[i].ok

\* the calls of the passes, in the order of the log
PassCalls == {i \in 1..Len(log) : log[i].pass > 0}

\* the calls of the log are in the order of the passes: the pushes of Pass 1,
\* then the removals of Pass 2, then the time queries, then the updates
PassOrder ==
    \A i, j \in PassCalls :
        i < j =>
            /\ log[i].pass <= log[j].pass
            /\ (log[i].op = "put" /\ log[i].pass = 3) => log[j].op = "put"
            /\ log[j].op \in Removals => log[i].op \notin {"getModifiedDateTime"}

\* the remote paths of the files Pass 1 transferred
Pushed1 == {toRemote(log[i].path) : i \in {k \in Ops(log, {"put"}) : log[k].pass = 1 /\ log[k].ok}}

\* C17 (pass ordering and hand-over): all Pass-1 pushes complete before the
\* first Pass-2 orphan test and all Pass-2 removals before the first Pass-3
\* time query; the remote snapshot Pass 2 iterates is the initial remote
\* listing united with exactly the paths Pass 1 transferred.
C17_PassOrderHandOver ==
    /\ PassOrder
    /\ pc \in {"start", "connect", "mkroot", "cwd", "list", "plan1", "exec1"} =>
          PassCalls = {}
    /\ pc = "pass2" =>
          /\ \A i \in PassCalls : log[i].pass <= 2
          /\ \A p \in Range(newFiles) : Issued({"put"}, 1, p)
    /\ pc = "oracle" =>
          \A r \in Range(remoteFiles) : Orphan(argData, localFiles, r) =>
              Issued({"deleteFile"}, 2, r)
    /\ AfterPass1 =>
          /\ remoteFiles = Listing(remoteListed, argData.remoteDirectory, <<"/">>)
                               \o newFilesTransfered
          /\ Range(newFilesTransfered) = Pushed1
          /\ Range(remoteFiles) = DOMAIN remoteListed \cup Pushed1

\* Pass 2 is about to test its first entry, on a snapshot made of a listed
\* path and of a path Pass 1 transferred
C17_Witness ==
    /\ pc = "pass2"
    /\ idx = 1
    /\ remoteListed # EmptyMap
    /\ Pushed1 # {}
    /\ Pushed1 \cap DOMAIN remoteListed = {}

\* C18 (the oracle has no placeholder entries): from the building of the
\* oracle to the end of the run, remoteFileModifiedTimes has an entry for a
\* remote path only if the time query for that path succeeded in this run; a
\* path whose query failed or that was never queried is absent, never present
\* with a default timestamp.
C18_NoPlaceholders ==
    pc \in {"oracle", "pass3", "disconnect", "done"} =>
        \A r \in DOMAIN remoteFileModifiedTimes :
            /\ Succeeded({"getModifiedDateTime"}, 3, r)
            /\ remoteFileModifiedTimes[r] # DefaultDateTime

\* the paths of the time queries, in the order of the log
QueryPaths ==
    LET calls == SelectSeq(log, LAMBDA e : e.op = "getModifiedDateTime")
    IN  [i \in 1..Len(calls) |-> calls[i].path]

\* the remote paths Pass 2 removed, as a file or as a directory
Removed2 ==
    {log[i].path : i \in {k \in Ops(log, Removals) : log[k].pass = 2 /\ log[k].ok}}

\* C19 as stated (the oracle is built over the post-Pass-2 snapshot): the time
\* query is issued once for each remote entry that remains after Pass 2 and
\* for no other path, never for a path Pass 2 removed.
C19_QueriesSkipRemoved ==
    pc \in {"pass3", "disconnect", "done"} =>
        /\ Range(QueryPaths) = Range(remoteFiles) \ Removed2
        /\ \A i, j \in 1..Len(QueryPaths) : QueryPaths[i] = QueryPaths[j] => i = j

\* from the start of Pass 1 to the end of the run
InPasses == pc \in {"plan1", "exec1", "pass2", "oracle", "pass3", "disconnect", "done"}

EndsWithSeparator(dir) == dir # <<>> /\ dir[Len(dir)] = "/"

\* C20 as stated (root normalization): from the start of Pass 1 to the end of
\* the run both the local root and the remote root end with a path separator.
C20_BothRootsNormalized ==
    InPasses =>
        /\ EndsWithSeparator(argData.localDirectory)
        /\ EndsWithSeparator(argData.remoteDirectory)

\* C20 (amended): from the start of Pass 1 to the end of the run the local
\* root ends with a path separator; the remote root is the working directory
\* the server reported, kept as reported with no separator appended, and the
\* mappings put the separator between it and the relative path.
C20_LocalRootNormalized ==
    InPasses =>
        /\ EndsWithSeparator(argData.localDirectory)
        /\ argData.localDirectory \in {argv.local, argv.local \o <<"/">>}
        /\ argData.remoteDirectory = ServerCwd(argv.remote)
        /\ \A s \in Suffixes :
              /\ toRemote(argData.localDirectory \o s)
                    = argData.remoteDirectory \o <<"/">> \o s
              /\ toLocal(argData.remoteDirectory \o <<"/">> \o s)
                    = argData.localDirectory \o s

\* Pass 1 starts on a command line whose local directory had no separator at
\* its end and whose remote directory had one
C20_Witness ==
    /\ pc = "plan1"
    /\ ~EndsWithSeparator(argv.local)
    /\ EndsWithSeparator(argv.remote)
    /\ EndsWithSeparator(argData.localDirectory)
    /\ ~EndsWithSeparator(argData.remoteDirectory)

\* the local paths whose remote name the server did not list
Unlisted == {p \in Range(localFiles) : toRemote(p) \notin DOMAIN remoteListed}

\* C21 (Pass-1 plan): the local paths handed to putFiles in Pass 1 (newFiles)
\* are exactly the paths of the local snapshot whose mapped remote path is not
\* in the remote snapshot as listed at the start of the run; a local path
\* whose mapped path is listed is never pushed in Pass 1, and Pass 1 issues no
\* deletion.
C21_Pass1Plan ==
    /\ (pc = "exec1" \/ AfterPass1) =>
          /\ Range(newFiles) = Unlisted
          /\ \A i, j \in 1..Len(newFiles) : newFiles[i] = newFiles[j] => i = j
    /\ AfterPass1 => PutIn(1) = (IF newFiles = <<>> THEN {} ELSE Unlisted)
    /\ \A i \in 1..Len(log) : log[i].pass = 1 => log[i].op = "put"
    /\ (pc \in {"plan1", "exec1"} \/ (pc = "pass2" /\ idx = 1)) =>
          Ops(log, Removals) = {}

\* Pass 1 is over: it pushed a new file and left alone a local file whose
\* remote path was listed
C21_Witness ==
    /\ pc = "pass2"
    /\ idx = 1
    /\ PutIn(1) # {}
    /\ \E p \in Range(localFiles) : toRemote(p) \in DOMAIN remoteListed /\ p \notin PutIn(1)

\* the paths of the put calls, in the order of the log
PutPaths ==
    LET calls == SelectSeq(log, LAMBDA e : e.op = "put")
    IN  [i \in 1..Len(calls) |-> calls[i].path]

\* the calls a backup never makes
NotInBackup ==
    {"listRemoteRecursive", "getModifiedDateTime", "deleteFile", "removeDirectory", "get"}

\* after the transfer the puts are those of the whole local listing
BackupPutsAll ==
    (IsBackup(prog) /\ (pc = "report" \/ Reported)) =>
        /\ PutPaths = Listing(localFS, CopyRoots.localDirectory, <<>>)
        /\ prog = "FTPBackup" => PutPaths = fileList

\* a step of a backup takes no path away from the server
BackupKeepsRemote ==
    IsBackup(prog) =>
        \A r \in DOMAIN remoteFS : r \in DOMAIN remoteFS'

\* C22 (Backup is unconditional): a backup run attempts a put for every path
\* of the local listing, whether or not the remote already holds that path and
\* whatever the timestamps; it never lists the remote tree, never queries a
\* modification time and never deletes anything on the remote.
C22_BackupUnconditional ==
    /\ [](BackupPutsAll /\ (IsBackup(prog) => Ops(log, NotInBackup) = {}))
    /\ [][BackupKeepsRemote]_vars

\* a backup is done that put a file the server already held (the put failed,
\* and the server still holds it)
C22_Witness ==
    /\ pc = "done"
    /\ IsBackup(prog)
    /\ \E i \in Ops(log, {"put"}) :
          /\ ~log[i].ok
          /\ localFileToRemote(CopyRoots, log[i].path).val \in DOMAIN remoteFS

\* C23 (session release): in FTPSync, FTPBackup and FTPRestore, once connect
\* has succeeded the session is disconnected before the process exits, on
\* every exit path, the paths of a thrown exception included.
C23_SessionRelease ==
    (prog \in {"FTPSync", "FTPBackup", "FTPRestore"} /\ exitStatus # Running) =>
        ~connected

\* a step inside one run leaves the local snapshot as the listing made it
KeepsLocalFiles ==
    (InPasses /\ pc' \in {"plan1", "exec1", "pass2", "oracle", "pass3",
                          "disconnect", "done", "failed"}) =>
        localFiles' = localFiles

\* C24 (Sync is one-way): a Sync run never issues a get and never creates,
\* modifies or deletes a local file; the local snapshot (localFiles) of the
\* listing is unchanged in every later state of the run, and the only side
\* the run mutates is the remote.
C24_OneWay ==
    /\ [](Ops(log, {"get"}) = {})
    /\ [](InPasses => localFiles = Listing(localFS, argData.localDirectory, <<>>))
    /\ [][localFS' = localFS /\ KeepsLocalFiles]_vars

\* a run is done that changed the server, by a put and by a removal, with the
\* local snapshot still the listing of the local tree
C24_Witness ==
    /\ pc = "done"
    /\ \E i \in Ops(log, {"put"}) : log[i].ok
    /\ \E i \in Ops(log, Removals) : log[i].ok
    /\ remoteFS # remoteListed
    /\ Range(localFiles) = DOMAIN localFS

\* C25 (no push-then-delete within a run): a remote path that Pass 1
\* transferred and added to the working remote snapshot is never the target of
\* deleteFile or removeDirectory in Pass 2 of the same run.
C25_NoPushThenDelete ==
    \A r \in Pushed1 :
        /\ ~Issued(Removals, 2, r)
        /\ AfterPass1 => (r \in Range(remoteFiles) /\ ~Orphan(argData, localFiles, r))

\* Pass 2 is over: it went through a path Pass 1 had transferred and left it,
\* and it removed another path
C25_Witness ==
    /\ pc = "oracle"
    /\ \E r \in Pushed1 : r \in Visited2 /\ r \in DOMAIN remoteFS
    /\ \E r \in Range(remoteFiles) \ Pushed1 : Succeeded(Removals, 2, r)

\* performRestore was entered (its first call is sftpServer.open()) and left
RestoreLeft ==
    /\ prog = "SFTPRestore"
    /\ Ops(log, {"open"}) # {}
    /\ pc \in {"disconnect", "done", "failed"}

\* the calls made inside performRestore
InRestore == {"open", "listRemoteRecursive", "get", "copy", "close"}

\* C26 (SFTP channel release): in performRestore the SFTP session is closed on
\* every exit path, after a normal restore and also when open, the remote
\* listing or getFiles throws, before the exception is passed on to main.
C26_SftpClosed ==
    /\ RestoreLeft =>
          /\ ~sftpOpen
          /\ \E i \in Ops(log, {"close"}) :
                \A j \in Ops(log, InRestore) : j <= i
    /\ (prog = "SFTPRestore" /\ sftpOpen) => pc \in {"list", "copy", "report", "close"}

\* getFiles threw in performRestore, the session was closed and main exited
C26_Witness ==
    /\ prog = "SFTPRestore"
    /\ pc = "failed"
    /\ \E i \in Ops(log, {"copy"}) : ~log[i].ok
    /\ log[Len(log)].op = "close"
    /\ ~sftpOpen

\* the calls whose failure is an exception in the backup and restore programs
Throwing ==
    {"connect", "verifyKnownServer", "userAuthorize", "open",
     "listLocalRecursive", "listRemoteRecursive", "copy"}

ExceptionThrown == \E i \in Ops(log, Throwing) : ~log[i].ok

\* the run printed "Backup failed." or "Restore failed."
FailureReported == FailedLine \in Range(report)

\* main of an SSH program threw in std::stoi on the text of --port
PortRefused ==
    /\ ParseCmdLine(prog, argv) = "accepted"
    /\ IsSSH(prog)
    /\ ~PortOf[argv.port].ok

\* C27 as stated (exit status of Backup and Restore): the four programs exit
\* with a non-zero status only when a connect, verification, authorization,
\* listing or transfer error was thrown.
C27_NonZeroOnlyOnListedErrors ==
    exitStatus = Exited(ExitFailure) => ExceptionThrown

\* C27 as amended (exit status of Backup and Restore): the four programs exit
\* with a non-zero status only when an exception was thrown: the command line
\* was rejected, the text of --port is no int (SCPBackup, SFTPRestore), or a
\* connect, verification, authorization, listing or transfer failed; a run
\* that prints "Backup failed." or "Restore failed." because no file was
\* transferred still disconnects and exits with status 0.
C27_CopyExitStatus ==
    /\ [](exitStatus \in {Running, Exited(ExitSuccess), Exited(ExitFailure)})
    /\ [](ExceptionThrown => exitStatus = Exited(ExitFailure))
    /\ [](exitStatus # Running =>
            (exitStatus = Exited(ExitFailure)
                <=> (Rejected \/ PortRefused \/ ExceptionThrown)))
    /\ [](exitStatus = Exited(ExitSuccess) =>
            \/ HelpAsked /\ log = <<>>
            \/ ~connected /\ log # <<>> /\ log[Len(log)].op = "disconnect")
    /\ [](FailureReported => ~ExceptionThrown)
    /\ FailureReported ~>
          (FailureReported /\ pc = "done" /\ ~connected /\ exitStatus = Exited(ExitSuccess))

\* a run that transferred nothing and said so has disconnected and exited
\* with status 0
C27_Witness ==
    /\ pc = "done"
    /\ FailureReported
    /\ \E i \in Copies : ~log[i].ok
    /\ ~connected
    /\ exitStatus = Exited(ExitSuccess)

\* the responses of the log that carry an EXISTS count, and those among them
\* that answer a wait (IDLE or NOOP)
Counted(l) == {i \in Ops(l, {"SELECT", "IDLE", "NOOP"}) : l[i].ok /\ l[i].path # <<>>}
CountedWaits(l) == {i \in Counted(l) : l[i].op \in {"IDLE", "NOOP"}}

\* the count a response carries, in 64 bits
CountAt(l, i) == Strtoull(l[i].path)

\* the EXISTS count most recently observed before the response i: 0 when none
\* was
Observed(l, i) ==
    LET before == {j \in Counted(l) : j < i}
    IN  IF before = {} THEN ULLongZero
        ELSE CountAt(l, CHOOSE j \in before : \A k \in before : k <= j)

\* the responses the program has gone through: all but the one it is about to
\* test
Tested == IF pc = "check" THEN Len(log) - 1 ELSE Len(log)

\* a tested response to a wait carried a count above the one observed before it
Rose ==
    \E i \in CountedWaits(log) : i <= Tested /\ Less(Observed(log, i), CountAt(log, i))

WaitOver == pc \in {"disconnect", "done"}

\* C28 (WaitForMailBoxEvent with --wait): the wait loop ends with "new mail"
\* and a disconnect if and only if a response carries an EXISTS count strictly
\* greater than the most recently observed one (at first the count of SELECT,
\* then each non-increasing EXISTS seen); any other status change keeps the
\* program waiting, and without --wait the loop makes exactly one wait cycle
\* before disconnecting.
C28_WaitForNewMail ==
    /\ newMail <=> Rose
    /\ newMail => WaitOver
    /\ (waitArgs.bWaitForNewMail /\ WaitOver) => newMail
    /\ (~waitArgs.bWaitForNewMail /\ WaitOver) => cycles = 1
    /\ (~newMail /\ pc \in {"wait", "poll", "check", "disconnect", "done"}) =>
          exists = NarrowToInt(Observed(log, Tested + 1))
    /\ pc = "done" => ~connected

\* the UIDs of the .eml files the folder of a mailbox held when --updates
\* listed it
ArchivedBefore(name) ==
    {NameUID(mailMessages[name][i]) :
        i \in {k \in 1..Len(mailMessages[name]) :
                  /\ IsEml(mailMessages[name][k])
                  /\ IsFile(Join(argData.destinationFolder, name), folder[name],
                            mailMessages[name][k])}}

HighestBefore(name) ==
    CHOOSE u \in ArchivedBefore(name) : \A v \in ArchivedBefore(name) : ~Less(u, v)

\* the UIDs of the messages of a mailbox given to fetchEmailAndArchive
FetchedOf(name) == {fetched[i].uid : i \in {k \in 1..Len(fetched) : fetched[k].box = name}}

\* the mailboxes of the run
BoxesOfRun == {Unquoted(mailBoxList[i]) : i \in 1..Len(mailBoxList)}

\* C29 (ArchiveMailBox with --updates): for each mailbox the program fetches
\* every message the UID search returns whose UID is greater than the highest
\* UID already archived as an .eml file in the destination folder, and skips
\* only the message with that highest UID; when the folder holds no .eml file,
\* every message of the mailbox, the one with UID 1 included, is fetched.
C29_Updates ==
    (pc = "done" /\ bOnlyUpdates) =>
        \A name \in BoxesOfRun :
            IF ArchivedBefore(name) = {}
            THEN FetchedOf(name) = mailbox[name]
            ELSE /\ FetchedOf(name) =
                       Range(SearchResult(mailbox[name], HighestBefore(name)))
                       \ {u \in UIDs : ULLong(u) = HighestBefore(name)}
                 /\ \A u \in mailbox[name] :
                       Less(HighestBefore(name), ULLong(u)) => u \in FetchedOf(name)

====
